---- MODULE Spec2Model ----
(***************************************************************************)
(* Verification model of the Itinero backend: the call tracker and its     *)
(* pre/post tool hooks, structured-data extraction and the plan / replan / *)
(* chat entry points (agents/orchestrator.py, agents/agent_tracker.py),    *)
(* the itinerary builder (utils/itinerary_builder.py) and the budget       *)
(* engine (agents/budget_agent.py).                                        *)
(*                                                                         *)
(* Several specifications share the module:                                *)
(*   Spec         the orchestrator: turns, hooks, session store            *)
(*   SpecItin     build_itinerary applied to bounded inputs                *)
(*   SpecBudget   optimize_budget applied to bounded inputs                *)
(*   SpecBudgetFloat  the same, with floating-point rounding errors        *)
(*   SpecDeps     get_affected_agents applied to bounded inputs            *)
(*   SpecExtract  _extract_result_text applied to bounded inputs           *)
(*   SpecManager  the chat client manager: requests, clock, expiry sweep   *)
(*   SpecManagerFair  the same, with every ready task eventually resumed   *)
(*   SpecTracker  one call tracker under interleaved hook events          *)
(*   SpecFetch    one serp_fetch call with its retries                     *)
(*   SpecRace     chat requests with one session id running concurrently   *)
(* Each specification holds the variables of the others constant.          *)
(***************************************************************************)
EXTENDS Integers, Sequences, FiniteSets, TLC

VARIABLES
    \* ---- orchestrator ----
    sessions,      \* utils/session_store.py `sessions`: session id -> SessionState
    trackers,      \* AgentTracker objects: "req" (per plan/replan call) or a chat session's
    cur,           \* the request being processed (between its first and last await)
    inflight,      \* tool calls whose PreToolUse hook ran and whose PostToolUse did not yet
    nextCall,      \* number of tool calls started so far (identifies a call and its arguments)
    chat_clients,  \* orchestrator._chat_clients: ids that hold a connected SDK client
    mgr_sessions,  \* ClientManager._sessions: ids that hold a ChatSession
    response,      \* what the last finished request returned to its route
    turns,         \* number of requests started so far (logical clock)
    \* ---- itinerary builder ----
    itin,          \* inputs and loop state of one build_itinerary call
    \* ---- budget engine ----
    bud,           \* inputs and result of one optimize_budget call
    \* ---- dependency resolver ----
    deps,          \* input and result of one get_affected_agents call
    \* ---- result extractor ----
    ext,           \* input and result of one _extract_result_text call
    \* ---- chat client manager ----
    mgr,           \* ClientManager, the client registry, the clock and the chat requests
    \* ---- call tracker ----
    trk,           \* one AgentTracker driven through its operations and hooks
    \* ---- fetch layer ----
    fetch,         \* one serp_fetch call: its attempts and outcome
    \* ---- concurrent chat turns ----
    race           \* chat requests racing on one session id: clients, registry, tracker

orchVars == <<sessions, trackers, cur, inflight, nextCall, chat_clients,
              mgr_sessions, response, turns>>
vars == <<sessions, trackers, cur, inflight, nextCall, chat_clients,
          mgr_sessions, response, turns, itin, bud, deps, ext, mgr, trk, fetch, race>>

(***************************************************************************)
(* Bounds of the model.                                                    *)
(***************************************************************************)
MaxCalls == 2      \* tool calls over one behaviour
MaxTurns == 2      \* requests (plan, replan, chat) over one behaviour

(***************************************************************************)
(* Tool names and domains.                                                 *)
(***************************************************************************)
Domains == {"weather", "transport", "hotel", "discovery", "budget"}

\* The orchestrator's own delegation tool fires the same hooks (matcher=None).
TaskTool == "Task"

TOOL_TO_AGENT ==
    [t \in {"mcp__weather__get_weather_forecast", "mcp__transport__search_flights",
            "mcp__hotel__search_hotels", "mcp__discovery__discover_places",
            "mcp__budget__optimize_budget"} |->
        CASE t = "mcp__weather__get_weather_forecast" -> "weather"
          [] t = "mcp__transport__search_flights" -> "transport"
          [] t = "mcp__hotel__search_hotels" -> "hotel"
          [] t = "mcp__discovery__discover_places" -> "discovery"
          [] t = "mcp__budget__optimize_budget" -> "budget"]

DomainTools == DOMAIN TOOL_TO_AGENT
ToolNames == DomainTools \cup {TaskTool}

\* _TOOL_TO_AGENT.get(tool_name): "" stands for None
AgentDomain(tool_name) ==
    IF tool_name \in DomainTools THEN TOOL_TO_AGENT[tool_name] ELSE ""

(***************************************************************************)
(* Texts and JSON documents.  A text is either absent (None), a string     *)
(* that is not JSON (body "" is the empty string), or the JSON encoding of *)
(* a document.  A document is a worker payload (the schema it satisfies    *)
(* and the output it carries) or an MCP wrapper with a content list.  src  *)
(* names the call that produced the text.                                  *)
(***************************************************************************)
NoneText == [kind |-> "none", body |-> "", doc |-> [dtype |-> "null"], src |-> 0]
PlainText(body, c) == [kind |-> "plain", body |-> body, doc |-> [dtype |-> "null"], src |-> c]
JsonText(doc, c) == [kind |-> "json", body |-> "json", doc |-> doc, src |-> c]

PayloadDoc(schema, val) == [dtype |-> "payload", schema |-> schema, val |-> val]
TextBlock(text) == [isdict |-> TRUE, type |-> "text", text |-> text]
WrapperDoc(blocks) == [dtype |-> "wrapper", content |-> blocks]

\* Python truthiness of an Optional[str]
Truthy(text) == text.kind = "json" \/ (text.kind = "plain" /\ text.body # "")

\* json.loads: the document, or JSONDecodeError
JsonLoads(text) ==
    IF text.kind = "json" THEN [exc |-> "none", doc |-> text.doc]
    ELSE [exc |-> "JSONDecodeError", doc |-> [dtype |-> "null"]]

\* Tool responses as the SDK hands them to PostToolUse
NoneResponse == [shape |-> "none", doc |-> [dtype |-> "null"], text |-> NoneText, blocks |-> <<>>]
DictResponse(doc) == [shape |-> "dict", doc |-> doc, text |-> NoneText, blocks |-> <<>>]
StrResponse(text) == [shape |-> "str", doc |-> [dtype |-> "null"], text |-> text, blocks |-> <<>>]
ListResponse(blocks) == [shape |-> "list", doc |-> [dtype |-> "null"], text |-> NoneText, blocks |-> blocks]

\* for block in content: if isinstance(block, dict) and block.get("type") == "text"
IsTextBlock(b) == b.isdict /\ b.type = "text"

FirstTextBlock(blocks) ==
    IF \E i \in 1..Len(blocks) : IsTextBlock(blocks[i])
    THEN LET i == CHOOSE i \in 1..Len(blocks) :
                      /\ IsTextBlock(blocks[i])
                      /\ \A j \in 1..(i - 1) : ~IsTextBlock(blocks[j])
         IN [found |-> TRUE, text |-> blocks[i].text]
    ELSE [found |-> FALSE, text |-> NoneText]

\* _extract_result_text
ExtractResultText(tool_response, c) ==
    CASE tool_response.shape = "none" -> NoneText
      [] tool_response.shape = "dict" ->
            LET ft == IF tool_response.doc.dtype = "wrapper"
                      THEN FirstTextBlock(tool_response.doc.content)
                      ELSE [found |-> FALSE, text |-> NoneText]
            IN IF ft.found THEN ft.text ELSE JsonText(tool_response.doc, c)
      [] tool_response.shape = "str" ->
            LET p == JsonLoads(tool_response.text)
                ft == IF p.exc = "none" /\ p.doc.dtype = "wrapper"
                      THEN FirstTextBlock(p.doc.content)
                      ELSE [found |-> FALSE, text |-> NoneText]
            IN IF ft.found THEN ft.text ELSE tool_response.text
      [] tool_response.shape = "list" ->
            LET ft == FirstTextBlock(tool_response.blocks)
            IN IF ft.found THEN ft.text ELSE PlainText("str(list)", c)
      [] OTHER -> PlainText("str(other)", c)

(***************************************************************************)
(* AgentTracker (agents/agent_tracker.py).  A ToolCallRecord keeps the     *)
(* tool name, the call's arguments (identified by the call) and the        *)
(* result text; `turn` is the request during which the record was made.    *)
(***************************************************************************)
EmptyTracker == [tool_call_records |-> <<>>, agents_completed |-> {}, errors |-> <<>>]

\* A reset that forgets to clear the collections.
TrackerResetKeeps(tracker) == tracker

\* AgentTracker.reset
TrackerReset(tracker) ==
    [tool_call_records |-> <<>>, agents_completed |-> {}, errors |-> <<>>]

\* faulty variant of record_tool_call: a call is not recorded while another
\* call of the same tool is still waiting for its result
RecordToolCallOncePerTool(tracker, tool_name, tool_input, turn) ==
    IF \E i \in 1..Len(tracker.tool_call_records) :
          /\ tracker.tool_call_records[i].tool_name = tool_name
          /\ tracker.tool_call_records[i].result_json.kind = "none"
    THEN tracker
    ELSE [tracker EXCEPT !.tool_call_records =
            Append(@, [tool_name |-> tool_name, tool_input |-> tool_input,
                       result_json |-> [kind |-> "none", body |-> "",
                                        doc |-> [dtype |-> "null"], src |-> 0],
                       turn |-> turn])]

\* AgentTracker.record_tool_call
RecordToolCall(tracker, tool_name, tool_input, turn) ==
    [tracker EXCEPT !.tool_call_records =
        Append(@, [tool_name |-> tool_name, tool_input |-> tool_input,
                   result_json |-> NoneText, turn |-> turn])]

\* AgentTracker.mark_agent_done
MarkAgentDone(tracker, agent_type) ==
    [tracker EXCEPT !.agents_completed = @ \cup {agent_type}]

\* AgentTracker.record_error
RecordError(tracker, error_msg) ==
    [tracker EXCEPT !.errors = Append(@, error_msg)]

\* str < str for lowercase names: the first differing letter decides, a
\* proper prefix comes first
RECURSIVE StrLessFrom(_, _, _)
StrLessFrom(a, b, i) ==
    LET alphabet == "abcdefghijklmnopqrstuvwxyz"
        rank(ch) == CHOOSE k \in 1..Len(alphabet) : SubSeq(alphabet, k, k) = ch
    IN  IF i > Len(b) THEN FALSE
        ELSE IF i > Len(a) THEN TRUE
        ELSE IF SubSeq(a, i, i) = SubSeq(b, i, i) THEN StrLessFrom(a, b, i + 1)
        ELSE rank(SubSeq(a, i, i)) < rank(SubSeq(b, i, i))

StrLess(a, b) == StrLessFrom(a, b, 1)

\* faulty variant of Sorted: the names in reverse alphabetical order
RECURSIVE SortedDescending(_)
SortedDescending(names) ==
    IF names = {} THEN <<>>
    ELSE LET last == CHOOSE x \in names : \A y \in names \ {x} : StrLess(y, x)
         IN  <<last>> \o SortedDescending(names \ {last})

\* sorted(names)
RECURSIVE Sorted(_)
Sorted(names) ==
    IF names = {} THEN <<>>
    ELSE LET first == CHOOSE x \in names : \A y \in names \ {x} : StrLess(x, y)
         IN  <<first>> \o Sorted(names \ {first})

\* AgentTracker.get_summary
GetSummary(tracker) ==
    [agents_completed |-> Sorted(tracker.agents_completed),
     total_tool_calls |-> Len(tracker.tool_call_records),
     tools_called |-> [i \in 1..Len(tracker.tool_call_records) |->
                          tracker.tool_call_records[i].tool_name],
     errors |-> tracker.errors]

(***************************************************************************)
(* The hooks built by _build_hooks.                                        *)
(***************************************************************************)
\* The scan run forward instead of reversed: the oldest unmatched record.
MatchIndexOldest(records, tool_name) ==
    LET cand == {i \in 1..Len(records) :
                    /\ records[i].tool_name = tool_name
                    /\ records[i].result_json.kind = "none"}
    IN IF cand = {} THEN 0 ELSE CHOOSE i \in cand : \A j \in cand : i <= j

\* faulty variant of MatchIndex: the latest record of the tool, whether or
\* not it already holds a result
MatchIndexLatestOfTool(records, tool_name) ==
    LET cand == {i \in 1..Len(records) : records[i].tool_name = tool_name}
    IN IF cand = {} THEN 0 ELSE CHOOSE i \in cand : \A j \in cand : j <= i

\* faulty variant of MatchIndex: falls back to the last record when no
\* record of the tool is waiting for a result
MatchIndexFallback(records, tool_name) ==
    LET cand == {i \in 1..Len(records) :
                    /\ records[i].tool_name = tool_name
                    /\ records[i].result_json.kind = "none"}
    IN IF cand = {} THEN Len(records) ELSE CHOOSE i \in cand : \A j \in cand : j <= i

\* for rec in reversed(records): if rec.tool_name == tool_name and rec.result_json is None
\* The index of the matched record, 0 when there is none.
MatchIndex(records, tool_name) ==
    LET cand == {i \in 1..Len(records) :
                    /\ records[i].tool_name = tool_name
                    /\ records[i].result_json.kind = "none"}
    IN IF cand = {} THEN 0 ELSE CHOOSE i \in cand : \A j \in cand : j <= i

\* pre_tool_use
PreToolUseHook(tracker, tool_name, tool_input, turn) ==
    RecordToolCall(tracker, tool_name, tool_input, turn)

\* post_tool_use
PostToolUseHook(tracker, tool_name, tool_response, c) ==
    LET agent_domain == AgentDomain(tool_name)
        i == MatchIndex(tracker.tool_call_records, tool_name)
        result_text == ExtractResultText(tool_response, c)
        attached == IF i # 0 /\ Truthy(result_text)
                    THEN [tracker EXCEPT !.tool_call_records[i].result_json = result_text]
                    ELSE tracker
    IN IF agent_domain = "" THEN tracker ELSE MarkAgentDone(attached, agent_domain)

(***************************************************************************)
(* _extract_structured_data.  data[d] = 0 stands for "d not in data";      *)
(* otherwise it is the output the parsed document carries.                 *)
(***************************************************************************)
NoneOut == 0       \* Optional[...Output] = None, key absent from `structured`
DefaultOut == -1   \* the _default_<domain>() placeholder output

\* the elif chain over substrings of tool_name
ExtractDomain(tool_name) ==
    CASE tool_name = "mcp__weather__get_weather_forecast" -> "weather"
      [] tool_name = "mcp__transport__search_flights" -> "transport"
      [] tool_name = "mcp__hotel__search_hotels" -> "hotel"
      [] tool_name = "mcp__discovery__discover_places" -> "discovery"
      [] tool_name = "mcp__budget__optimize_budget" -> "budget"
      [] OTHER -> ""

\* <Domain>Output(**parsed): the exception pydantic raises, "none" when it validates
Validate(domain, doc) ==
    IF doc.dtype = "payload" /\ doc.schema = domain THEN "none" ELSE "ValidationError"

\* The decode step without its except clause.
DecodeCaughtNothing == {}

\* except json.JSONDecodeError
DecodeCaught == {"JSONDecodeError"}
\* except Exception
ValidateCaught == {"ValidationError", "TypeError", "JSONDecodeError"}

\* one iteration of `for record in tracker.tool_call_records`
ExtractRecord(acc, record) ==
    IF acc.raised \/ ~Truthy(record.result_json) THEN acc
    ELSE LET p == JsonLoads(record.result_json)
             d == ExtractDomain(record.tool_name)
         IN IF p.exc # "none"
            THEN (IF p.exc \in DecodeCaught THEN acc ELSE [acc EXCEPT !.raised = TRUE])
            ELSE IF d = "" THEN acc
            ELSE LET v == Validate(d, p.doc)
                 IN IF v = "none" THEN [acc EXCEPT !.data[d] = p.doc.val]
                    ELSE IF v \in ValidateCaught THEN acc
                    ELSE [acc EXCEPT !.raised = TRUE]

RECURSIVE ExtractLoop(_, _, _)
ExtractLoop(records, i, acc) ==
    IF i > Len(records) THEN acc
    ELSE ExtractLoop(records, i + 1, ExtractRecord(acc, records[i]))

ExtractStructuredData(tracker) ==
    ExtractLoop(tracker.tool_call_records, 1,
                [data |-> [d \in Domains |-> NoneOut], raised |-> FALSE])

(***************************************************************************)
(* Dependency resolver (utils/dependency_map.py).                          *)
(***************************************************************************)
DEPENDENCY_MAP ==
    [f \in {"preferences", "dislikes", "budget_usd", "origin", "destination",
            "dates", "start_date", "end_date"} |->
        CASE f = "preferences" -> {"discovery", "itinerary"}
          [] f = "dislikes" -> {"discovery", "itinerary"}
          [] f = "budget_usd" -> {"budget", "itinerary"}
          [] f = "origin" -> {"transport", "budget", "itinerary"}
          [] f = "destination" ->
                {"weather", "transport", "hotel", "discovery", "budget", "itinerary"}
          [] f = "dates" -> {"weather", "transport", "hotel", "budget", "itinerary"}
          [] f = "start_date" -> {"weather", "transport", "hotel", "budget", "itinerary"}
          [] f = "end_date" -> {"weather", "transport", "hotel", "budget", "itinerary"}]

\* faulty variant of GetAffectedAgents: an unknown field invalidates everything
GetAffectedAgentsClosed(changed_fields) ==
    UNION {IF f \in DOMAIN DEPENDENCY_MAP THEN DEPENDENCY_MAP[f]
           ELSE Domains \cup {"itinerary"} : f \in changed_fields}

\* get_affected_agents
GetAffectedAgents(changed_fields) ==
    UNION {DEPENDENCY_MAP[f] : f \in changed_fields \cap DOMAIN DEPENDENCY_MAP}

(***************************************************************************)
(* Session store and responses.                                            *)
(***************************************************************************)
SessionIds == {"s1", "s2"}

\* str(uuid.uuid4()): an id no session, chat session or client holds yet.  Ids
\* are interchangeable, so the first unused one in a fixed order is drawn.
IdOrder == <<"s1", "s2">>
IsUnused(sid) ==
    ~sessions[sid].exists /\ sid \notin mgr_sessions /\ sid \notin chat_clients
IsFreshId(sid) ==
    \E i \in 1..Len(IdOrder) :
        /\ IdOrder[i] = sid
        /\ IsUnused(sid)
        /\ \A j \in 1..(i - 1) : ~IsUnused(IdOrder[j])
TrackerKeys == {"req"} \cup SessionIds

\* sessions.get(session_id) is None
NoSession ==
    [exists |-> FALSE, request |-> 0, out |-> [d \in Domains |-> NoneOut],
     itinerary |-> <<>>, agents_run |-> {}, replanned_agents |-> {},
     errors |-> <<>>, updated_at |-> 0]

\* save_session: stamps updated_at and stores the session under its id
SaveSession(store, sid, session, now) ==
    [store EXCEPT ![sid] = [session EXCEPT !.updated_at = now]]

NoSummary ==
    [agents_completed |-> <<>>, total_tool_calls |-> 0, tools_called |-> <<>>,
     errors |-> <<>>]

NoResponse ==
    [status |-> "none", kind |-> "none", session_id |-> "",
     out |-> [d \in Domains |-> NoneOut], itinerary |-> <<>>, agents_run |-> {},
     replanned_agents |-> {}, errors |-> <<>>, has_plan |-> FALSE,
     summary |-> NoSummary]

\* `x or _default_x()` for each of the five outputs
OrDefault(out) == [d \in Domains |-> IF out[d] # NoneOut THEN out[d] ELSE DefaultOut]

\* _session_to_response
SessionToResponse(sid, session, replanned) ==
    [status |-> "ok", kind |-> "replan", session_id |-> sid,
     out |-> OrDefault(session.out), itinerary |-> session.itinerary,
     agents_run |-> session.agents_run, replanned_agents |-> replanned,
     errors |-> session.errors, has_plan |-> TRUE, summary |-> NoSummary]

\* The assignments without their `if "<domain>" in structured` guards.
ApplyStructuredUnguarded(out, data) == data

\* the five `if "<domain>" in structured: session.<domain> = structured["<domain>"]`
ApplyStructured(out, data) ==
    [d \in Domains |-> IF data[d] # NoneOut THEN data[d] ELSE out[d]]

\* The changed-field sets a replan request of this specification may carry.
ReplanChanges ==
    {{}, {"unknown_field"}, {"budget_usd"}, {"destination", "unknown_field"}}

\* The request being processed: its entry point, the session and tracker it
\* works on, the affected-domain set of a replan, the session's outputs when
\* it began, the number of records its tracker held on entry, the changed
\* fields a replan request carried and whether the caller named the session id.
Idle ==
    [kind |-> "none", phase |-> "done", sid |-> "", tracker |-> "req",
     affected |-> {}, before |-> [d \in Domains |-> NoneOut], cleared |-> 0,
     changed |-> {}, named |-> FALSE]

(***************************************************************************)
(* The orchestrator as a state machine.  A request runs from its Begin     *)
(* action (the code up to the first await on the SDK client) over the hook *)
(* events the delegation caller produces to its Finish action (the code    *)
(* after receive_response() is exhausted).  Requests are processed one     *)
(* after another.  The tracker a plan or replan call created and the       *)
(* response it returned are dropped when the next request begins.          *)
(***************************************************************************)
\* What a worker call c of tool t may hand back to PostToolUse.
WorkerResponses(t, c) ==
    LET d == AgentDomain(t)
    IN IF d = "" THEN {NoneResponse}
       ELSE {NoneResponse,
             DictResponse(WrapperDoc(<<TextBlock(JsonText(PayloadDoc(d, c), c))>>)),
             DictResponse(WrapperDoc(<<TextBlock(JsonText(PayloadDoc("unknown", c), c))>>)),
             DictResponse(WrapperDoc(<<TextBlock(PlainText("Error: upstream failure", c))>>)),
             DictResponse(WrapperDoc(<<TextBlock(PlainText("", c))>>)),
             StrResponse(JsonText(PayloadDoc(d, c), c))}

\* The tools the delegation caller invokes in this specification: one whose
\* domain a budget-only replan leaves out, one it names, and the Task tool.
CalledTools ==
    {"mcp__weather__get_weather_forecast", "mcp__budget__optimize_budget", TaskTool}

OrchInit ==
    /\ sessions = [s \in SessionIds |-> NoSession]
    /\ trackers = [k \in TrackerKeys |-> EmptyTracker]
    /\ cur = Idle
    /\ inflight = {}
    /\ nextCall = 0
    /\ chat_clients = {}
    /\ mgr_sessions = {}
    /\ response = NoResponse
    /\ turns = 0

CanBegin == cur.phase = "done" /\ turns < MaxTurns

\* PreToolUse hook event of a new call of tool t
PreToolUse(t) ==
    /\ cur.phase = "run"
    /\ nextCall < MaxCalls
    /\ nextCall' = nextCall + 1
    /\ trackers' = [trackers EXCEPT ![cur.tracker] =
                        PreToolUseHook(@, t, nextCall + 1, turns)]
    /\ inflight' = inflight \cup {[id |-> nextCall + 1, tool |-> t]}
    /\ UNCHANGED <<sessions, cur, chat_clients, mgr_sessions, response, turns, itin, bud, deps, ext, mgr, trk, fetch, race>>

\* PostToolUse hook event of the running call c, carrying tool_response r
PostToolUse(c, r) ==
    /\ cur.phase = "run"
    /\ c \in inflight
    /\ trackers' = [trackers EXCEPT ![cur.tracker] = PostToolUseHook(@, c.tool, r, c.id)]
    /\ inflight' = inflight \ {c}
    /\ UNCHANGED <<sessions, cur, nextCall, chat_clients, mgr_sessions, response, turns, itin, bud, deps, ext, mgr, trk, fetch, race>>

\* run_full_plan up to `await client.query(prompt)`
BeginPlan(sid) ==
    /\ CanBegin
    /\ IsFreshId(sid)
    /\ trackers' = [trackers EXCEPT !["req"] = EmptyTracker]
    /\ cur' = [kind |-> "plan", phase |-> "run", sid |-> sid, tracker |-> "req",
               affected |-> {}, before |-> sessions[sid].out, cleared |-> 0,
               changed |-> {}, named |-> FALSE]
    /\ inflight' = {}
    /\ response' = NoResponse
    /\ turns' = turns + 1
    /\ UNCHANGED <<sessions, nextCall, chat_clients, mgr_sessions, itin, bud, deps, ext, mgr, trk, fetch, race>>

ErrorResponse(kind, sid) ==
    [NoResponse EXCEPT !.status = "error", !.kind = kind, !.session_id = sid]

\* run_full_plan after the response is received
FinishPlan ==
    /\ cur.kind = "plan" /\ cur.phase = "run"
    /\ LET tracker == trackers[cur.tracker]
           structured == ExtractStructuredData(tracker)
           session == [exists |-> TRUE, request |-> 0, out |-> structured.data,
                       itinerary |-> <<>>, agents_run |-> tracker.agents_completed,
                       replanned_agents |-> {}, errors |-> tracker.errors,
                       updated_at |-> 0]
       IN IF structured.raised
          THEN /\ response' = ErrorResponse("plan", cur.sid)
               /\ UNCHANGED sessions
          ELSE /\ sessions' = SaveSession(sessions, cur.sid, session, turns)
               /\ response' =
                     [status |-> "ok", kind |-> "plan", session_id |-> cur.sid,
                      out |-> OrDefault(structured.data),
                      itinerary |-> session.itinerary,
                      agents_run |-> tracker.agents_completed,
                      replanned_agents |-> {}, errors |-> tracker.errors,
                      has_plan |-> TRUE, summary |-> NoSummary]
    /\ cur' = [cur EXCEPT !.phase = "done"]
    /\ inflight' = {}
    /\ UNCHANGED <<trackers, nextCall, chat_clients, mgr_sessions, turns, itin, bud, deps, ext, mgr, trk, fetch, race>>

\* run_replan: `raise ValueError("Session not found")`
ReplanNotFound(sid) ==
    /\ CanBegin
    /\ ~sessions[sid].exists
    /\ response' = [NoResponse EXCEPT !.status = "not_found", !.kind = "replan",
                                      !.session_id = sid]
    /\ cur' = [Idle EXCEPT !.kind = "replan_not_found", !.named = TRUE, !.sid = sid]
    /\ trackers' = [trackers EXCEPT !["req"] = EmptyTracker]
    /\ turns' = turns + 1
    /\ UNCHANGED <<sessions, inflight, nextCall, chat_clients, mgr_sessions, itin, bud, deps, ext, mgr, trk, fetch, race>>

\* run_replan: `if not affected: return _session_to_response(session, replanned=[])`
ReplanNoop(sid, changed) ==
    /\ CanBegin
    /\ sessions[sid].exists
    /\ GetAffectedAgents(changed) = {}
    /\ response' = SessionToResponse(sid, sessions[sid], {})
    /\ cur' = [Idle EXCEPT !.kind = "replan_noop", !.named = TRUE, !.sid = sid, !.before = sessions[sid].out,
                           !.changed = changed]
    /\ trackers' = [trackers EXCEPT !["req"] = EmptyTracker]
    /\ turns' = turns + 1
    /\ UNCHANGED <<sessions, inflight, nextCall, chat_clients, mgr_sessions, itin, bud, deps, ext, mgr, trk, fetch, race>>

\* run_replan: PlanRequest(**request_data) rejects the updated values
ReplanInvalid(sid, changed) ==
    /\ CanBegin
    /\ sessions[sid].exists
    /\ GetAffectedAgents(changed) # {}
    /\ response' = ErrorResponse("replan", sid)
    /\ cur' = [Idle EXCEPT !.kind = "replan_invalid", !.named = TRUE, !.sid = sid,
                           !.before = sessions[sid].out, !.changed = changed]
    /\ trackers' = [trackers EXCEPT !["req"] = EmptyTracker]
    /\ turns' = turns + 1
    /\ UNCHANGED <<sessions, inflight, nextCall, chat_clients, mgr_sessions, itin, bud, deps, ext, mgr, trk, fetch, race>>

\* run_replan up to `await client.query(prompt)`
BeginReplan(sid, changed) ==
    /\ CanBegin
    /\ sessions[sid].exists
    /\ GetAffectedAgents(changed) # {}
    /\ trackers' = [trackers EXCEPT !["req"] = EmptyTracker]
    /\ cur' = [kind |-> "replan", phase |-> "run", sid |-> sid, tracker |-> "req",
               affected |-> GetAffectedAgents(changed), before |-> sessions[sid].out,
               cleared |-> 0, changed |-> changed, named |-> TRUE]
    /\ inflight' = {}
    /\ response' = NoResponse
    /\ turns' = turns + 1
    /\ UNCHANGED <<sessions, nextCall, chat_clients, mgr_sessions, itin, bud, deps, ext, mgr, trk, fetch, race>>

\* run_replan after the response is received
FinishReplan ==
    /\ cur.kind = "replan" /\ cur.phase = "run"
    /\ LET tracker == trackers[cur.tracker]
           structured == ExtractStructuredData(tracker)
           old == sessions[cur.sid]
           session == [old EXCEPT !.out = ApplyStructured(old.out, structured.data),
                                  !.request = old.request + 1,
                                  !.replanned_agents = tracker.agents_completed,
                                  !.errors = old.errors \o tracker.errors]
       IN IF structured.raised
          THEN /\ response' = ErrorResponse("replan", cur.sid)
               /\ UNCHANGED sessions
          ELSE /\ sessions' = SaveSession(sessions, cur.sid, session, turns)
               /\ response' = SessionToResponse(cur.sid, session, tracker.agents_completed)
    /\ cur' = [cur EXCEPT !.phase = "done"]
    /\ inflight' = {}
    /\ UNCHANGED <<trackers, nextCall, chat_clients, mgr_sessions, turns, itin, bud, deps, ext, mgr, trk, fetch, race>>

\* ClientManager.get_or_create followed by run_chat_turn up to the first query:
\* routes/chat.py `chat`.  known: the id has a ChatSession; expired: its
\* is_expired holds when the request arrives.
ChatEnter(id, known, expired, named) ==
    LET reuse == known /\ ~expired
        \* _remove_session -> close_chat_session pops the client of an expired session
        clients1 == IF known /\ expired THEN chat_clients \ {id} ELSE chat_clients
        \* a reused ChatSession keeps its tracker, a new one gets AgentTracker()
        tracker1 == IF reuse THEN trackers[id] ELSE EmptyTracker
    IN /\ mgr_sessions' = mgr_sessions \cup {id}
       \* `tracker.reset()`
       /\ trackers' = [trackers EXCEPT ![id] = TrackerReset(tracker1),
                                       !["req"] = EmptyTracker]
       \* `if session_id in _chat_clients ... else: connect and register`
       /\ chat_clients' = clients1 \cup {id}
       /\ cur' = [kind |-> "chat", phase |-> "run", sid |-> id, tracker |-> id,
                  affected |-> {}, before |-> sessions[id].out,
                  cleared |-> Len(tracker1.tool_call_records),
                  changed |-> {}, named |-> named]
       /\ inflight' = {}
       /\ response' = NoResponse
       /\ turns' = turns + 1
       /\ UNCHANGED <<sessions, nextCall, itin, bud, deps, ext, mgr, trk, fetch, race>>

\* POST /api/chat with a session id
BeginChat(sid, expired) ==
    /\ CanBegin
    /\ expired => sid \in mgr_sessions
    /\ ChatEnter(sid, sid \in mgr_sessions, expired, TRUE)

\* POST /api/chat with session_id = None: the manager draws a new uuid
BeginChatNew(sid) ==
    /\ CanBegin
    /\ IsFreshId(sid)
    /\ ChatEnter(sid, FALSE, FALSE, FALSE)

\* run_chat_turn after the response is received
FinishChat ==
    /\ cur.kind = "chat" /\ cur.phase = "run"
    /\ LET tracker == trackers[cur.tracker]
           old == sessions[cur.sid]
           extract == tracker.tool_call_records # <<>> /\ old.exists
           structured == ExtractStructuredData(tracker)
           updated == extract /\ \E d \in Domains : structured.data[d] # NoneOut
           session == [old EXCEPT !.out = ApplyStructured(old.out, structured.data)]
           keys == {d \in Domains : structured.data[d] # NoneOut}
       IN IF extract /\ structured.raised
          THEN /\ response' = ErrorResponse("chat", cur.sid)
               /\ UNCHANGED sessions
          ELSE /\ sessions' = IF updated
                              THEN SaveSession(sessions, cur.sid, session, turns)
                              ELSE sessions
               /\ response' =
                     IF updated
                     THEN [SessionToResponse(cur.sid, session, keys) EXCEPT
                               !.kind = "chat", !.summary = GetSummary(tracker)]
                     ELSE [NoResponse EXCEPT !.status = "ok", !.kind = "chat",
                               !.session_id = cur.sid, !.summary = GetSummary(tracker)]
    /\ cur' = [cur EXCEPT !.phase = "done"]
    /\ inflight' = {}
    /\ UNCHANGED <<trackers, nextCall, chat_clients, mgr_sessions, turns, itin, bud, deps, ext, mgr, trk, fetch, race>>

(***************************************************************************)
(* Strings: str.lower(), str.strip() and the substring test `kw in text`.  *)
(***************************************************************************)
UpperLetters == "ABCDEFGHIJKLMNOPQRSTUVWXYZ"
LowerLetters == "abcdefghijklmnopqrstuvwxyz"
Whitespace == {" ", "\t", "\n", "\r"}

CharAt(s, i) == SubSeq(s, i, i)

UpperToLower ==
    [c \in {CharAt(UpperLetters, i) : i \in 1..Len(UpperLetters)} |->
        CharAt(LowerLetters, CHOOSE i \in 1..Len(UpperLetters) : CharAt(UpperLetters, i) = c)]

LowerChar(c) == IF c \in DOMAIN UpperToLower THEN UpperToLower[c] ELSE c

RECURSIVE Lower(_)
Lower(s) ==
    IF Len(s) = 0 THEN ""
    ELSE LowerChar(CharAt(s, 1)) \o Lower(SubSeq(s, 2, Len(s)))

RECURSIVE LStrip(_)
LStrip(s) ==
    IF Len(s) > 0 /\ CharAt(s, 1) \in Whitespace
    THEN LStrip(SubSeq(s, 2, Len(s)))
    ELSE s

RECURSIVE RStrip(_)
RStrip(s) ==
    IF Len(s) > 0 /\ CharAt(s, Len(s)) \in Whitespace
    THEN RStrip(SubSeq(s, 1, Len(s) - 1))
    ELSE s

Strip(s) == RStrip(LStrip(s))

Contains(text, kw) ==
    \E i \in 1..(Len(text) - Len(kw) + 1) : SubSeq(text, i, i + Len(kw) - 1) = kw

(***************************************************************************)
(* Itinerary builder (utils/itinerary_builder.py).  Dates are day          *)
(* ordinals, rain probabilities are whole percents.  The DayPlan keeps the *)
(* fields the loop decides (date, forecast, the two attraction slots, the  *)
(* hidden gem, the dinner restaurant); the meal and activity captions and  *)
(* the daily spend figure, which are derived from them, are left out.      *)
(***************************************************************************)
MaxAttractions == 3    \* length of discovery.attractions
MaxDays == 4           \* end_date - start_date
MaxForecasts == 2      \* length of weather.daily_forecasts

None == [none |-> TRUE]

OUTDOOR_KEYWORDS == {"park", "beach", "hiking", "outdoor", "garden", "trail", "waterfall"}
RAIN_THRESHOLD == 60   \* forecast.max_rain_probability > 0.6, in percent

IsOutdoor(attraction) ==
    \/ attraction.is_outdoor
    \/ LET combined == Lower(attraction.type) \o " " \o Lower(attraction.name)
       IN  \E kw \in OUTDOOR_KEYWORDS : Contains(combined, kw)

\* the attractions the inputs are drawn from, and _is_outdoor tabulated over
\* them (evaluated once)
AttractionCatalog ==
    { [name |-> "City Museum",    type |-> "museum",   is_outdoor |-> FALSE],
      [name |-> "Royal Gallery",  type |-> "art",      is_outdoor |-> FALSE],
      [name |-> "Central Park",   type |-> "landmark", is_outdoor |-> FALSE],
      [name |-> "Old Quarter",    type |-> "Hiking",   is_outdoor |-> FALSE],
      [name |-> "Harbour Cruise", type |-> "tour",     is_outdoor |-> TRUE] }
OutdoorTag == [a \in AttractionCatalog |-> IsOutdoor(a)]

MinOf(S) == CHOOSE x \in S : \A y \in S : x <= y

\* faulty variant of FindIndoorReplacement: the scan ignores the used set
FindIndoorReplacementAny(attractions, used) ==
    LET hits == {i \in 1..Len(attractions) : ~OutdoorTag[attractions[i]]}
    IN  IF hits = {} THEN None ELSE attractions[MinOf(hits)]

FindIndoorReplacement(attractions, used) ==
    LET hits == {i \in 1..Len(attractions) :
                    attractions[i].name \notin used /\ ~OutdoorTag[attractions[i]]}
    IN  IF hits = {} THEN None ELSE attractions[MinOf(hits)]

WeatherForDate(weather, target_date) ==
    LET hits == {i \in 1..Len(weather.daily_forecasts) :
                    weather.daily_forecasts[i].date = target_date}
    IN  IF hits = {} THEN None ELSE weather.daily_forecasts[MinOf(hits)]

\* one "pick ... attraction" block of the loop body; attraction_idx is the
\* 0-based cursor, `picked` the value left in morning_/afternoon_attraction
PickAttraction(loop, attractions, is_rainy) ==
    IF loop.attraction_idx < Len(attractions)
    THEN LET candidate == attractions[loop.attraction_idx + 1]
             replacement == FindIndoorReplacement(attractions, loop.used_attractions)
             picked == IF is_rainy /\ OutdoorTag[candidate] /\ replacement # None
                       THEN replacement
                       ELSE candidate
         IN  [loop EXCEPT !.attraction_idx = @ + 1,
                          !.used_attractions = @ \cup {picked.name},
                          !.picked = picked]
    ELSE [loop EXCEPT !.picked = None]

\* faulty variant of HasGem: a gem on every day while gems remain
HasGemAnyDay(day_num, gem_idx, hidden_gems) == gem_idx < Len(hidden_gems)

\* if day_num % 2 == 0 and gem_idx < len(hidden_gems)
HasGem(day_num, gem_idx, hidden_gems) ==
    day_num % 2 = 0 /\ gem_idx < Len(hidden_gems)

\* faulty variant of DinnerIndex: the cursor stops at the last restaurant
DinnerIndexNoWrap(restaurant_idx, n) ==
    IF restaurant_idx < n THEN restaurant_idx + 1 ELSE n

\* restaurants[restaurant_idx % len(restaurants)], as a position from 1
DinnerIndex(restaurant_idx, n) == (restaurant_idx % n) + 1

\* the body of `for day_num in range(1, num_days + 1)`
BuildDay(loop, args, day_num) ==
    LET current_date == args.start_date + (day_num - 1)
        forecast == WeatherForDate(args.weather, current_date)
        is_rainy == forecast # None /\ forecast.max_rain_probability > RAIN_THRESHOLD
        attractions == IF args.discovery # None THEN args.discovery.attractions ELSE <<>>
        hidden_gems == IF args.discovery # None THEN args.discovery.hidden_gems ELSE <<>>
        restaurants == IF args.discovery # None THEN args.discovery.restaurants ELSE <<>>
        morning == PickAttraction(loop, attractions, is_rainy)
        afternoon == PickAttraction(morning, attractions, is_rainy)
        has_gem == HasGem(day_num, loop.gem_idx, hidden_gems)
        has_dinner == restaurants # <<>>
        day == [day_number |-> day_num,
                date |-> current_date,
                weather |-> forecast,
                morning_attraction |-> morning.picked,
                afternoon_attraction |-> afternoon.picked,
                hidden_gem |-> IF has_gem THEN hidden_gems[loop.gem_idx + 1] ELSE None,
                dinner_restaurant |->
                    IF has_dinner
                    THEN restaurants[DinnerIndex(loop.restaurant_idx, Len(restaurants))]
                    ELSE None]
    IN  [attraction_idx |-> afternoon.attraction_idx,
         used_attractions |-> afternoon.used_attractions,
         picked |-> None,
         gem_idx |-> IF has_gem THEN loop.gem_idx + 1 ELSE loop.gem_idx,
         restaurant_idx |-> IF has_dinner THEN loop.restaurant_idx + 1
                            ELSE loop.restaurant_idx,
         days |-> Append(loop.days, day)]

RECURSIVE BuildLoop(_, _, _, _)
BuildLoop(loop, args, day_num, num_days) ==
    IF day_num > num_days THEN loop.days
    ELSE BuildLoop(BuildDay(loop, args, day_num), args, day_num + 1, num_days)

\* faulty variant of NumDays: an empty or reversed range is not raised to one day
NumDaysNoFloor(start_date, end_date) == end_date - start_date

NumDays(start_date, end_date) ==
    IF end_date - start_date <= 0 THEN 1 ELSE end_date - start_date

BuildItinerary(args) ==
    BuildLoop([attraction_idx |-> 0, used_attractions |-> {}, picked |-> None,
               gem_idx |-> 0, restaurant_idx |-> 0, days |-> <<>>],
              args, 1, NumDays(args.start_date, args.end_date))

\* ---- inputs of build_itinerary ----
StartDate == 10
SeqsUpTo(S, n) == UNION {[1..k -> S] : k \in 0..n}

\* sequences of length 0..n over S in which no element occurs twice
DistinctSeqs(S, n) ==
    {q \in SeqsUpTo(S, n) : \A i, j \in 1..Len(q) : i # j => q[i] # q[j]}

ForecastChoices ==
    { [date |-> StartDate,     max_rain_probability |-> 60],
      [date |-> StartDate,     max_rain_probability |-> 61],
      [date |-> StartDate + 1, max_rain_probability |-> 90] }
HiddenGemLists ==
    {<<>>, <<[name |-> "Back Alley Mural"]>>,
     <<[name |-> "Back Alley Mural"], [name |-> "Rooftop Garden"]>>}
RestaurantLists ==
    {<<>>, <<[name |-> "Trattoria"]>>, <<[name |-> "Trattoria"], [name |-> "Noodle Bar"]>>}

DiscoveryInputs ==
    {None} \cup
    { [attractions |-> a, hidden_gems |-> g, restaurants |-> r] :
        a \in DistinctSeqs(AttractionCatalog, MaxAttractions),
        g \in HiddenGemLists, r \in RestaurantLists }

EndDates == (StartDate - 1)..(StartDate + MaxDays)
ForecastLists == SeqsUpTo(ForecastChoices, MaxForecasts)

ItinArgs(end_date, forecasts, discovery) ==
    [start_date |-> StartDate, end_date |-> end_date,
     weather |-> [daily_forecasts |-> forecasts], discovery |-> discovery]

(***************************************************************************)
(* Budget engine (agents/budget_agent.py).  Money is counted in            *)
(* thousandths of a dollar; the inputs are whole cents (total_budget whole *)
(* dimes), which keeps every product below exact.  Factors are written in  *)
(* tenths (0.80 = 8/10, 999.0 = 9990/10) and applied after the division so *)
(* that the uncapped luxury budget stays inside the integer range.         *)
(***************************************************************************)
USD(dollars) == dollars * 1000

\* faulty variant of TimesTenths: the factor is dropped
TimesOne(x, tenths) == x

TimesTenths(x, tenths) == (x \div 10) * tenths

STYLE_MULTIPLIERS ==
    [affordable |-> 8, standard |-> 10, premium |-> 12, luxury |-> 9990]
StyleNames == DOMAIN STYLE_MULTIPLIERS
DEFAULT_MULTIPLIER == 10                   \* STYLE_MULTIPLIERS.get(style, 1.0)
MIN_FOOD_PER_DAY == 15000                  \* 15.0 dollars
MIN_ACTIVITIES_PER_DAY == 5000             \* 5.0 dollars

\* faulty variant of MaxOf2: the floor is never applied
FirstOf2(a, b) == a

MaxOf2(a, b) == IF a >= b THEN a ELSE b

\* faulty variant of LessThan80Pct: the threshold is 120 % of the budget
LessThan120Pct(a, b) == a < b + (b \div 5)

\* a > b * 1.05 and a < b * 0.80 over the integers: with b = 20q + r the first
\* is a > b + q, with b = 5q + r the second is a < b - q (q the floor quotient)
GreaterThan105Pct(a, b) == a > b + (b \div 20)
LessThan80Pct(a, b) == a < b - (b \div 5)

\* round(x, 2): to the nearest cent, ties to the even cent
Round2(x) ==
    LET r == x % 10
        down == x - r
    IN  IF r < 5 THEN down
        ELSE IF r > 5 THEN down + 10
        ELSE IF (down \div 10) % 2 = 0 THEN down ELSE down + 10

\* Binary floating point: an operation returns the exact result x or a
\* neighbour of it.  e is the rounding error of the operation, counted in
\* the smallest amount the model tells apart; the exact specification runs
\* with every e = 0.
Fl(x, e) == x + e

NoRounding ==
    [effective |-> 0, discretionary |-> 0, food |-> 0, activities |-> 0,
     total |-> 0, threshold |-> 0]

\* the status chain; e is the rounding error of the threshold product
ClassifyStatusRounded(is_luxury, estimated_total, effective_budget, e) ==
    IF is_luxury THEN "balanced"
    ELSE IF GreaterThan105Pct(estimated_total - e, effective_budget) THEN "over"
    ELSE IF LessThan80Pct(estimated_total - e, effective_budget) THEN "under"
    ELSE "balanced"

ClassifyStatus(is_luxury, estimated_total, effective_budget) ==
    ClassifyStatusRounded(is_luxury, estimated_total, effective_budget, 0)

\* _generate_suggestions: the list of messages, each named by its opening
\* words; `raised` is the exception the transport share's division throws
GenerateSuggestions(status, transport_cost, hotel_cost, total_budget, remaining, is_luxury) ==
    IF is_luxury
    THEN [raised |-> "",
          suggestions |-> <<"luxury_no_ceiling", "luxury_dining">>
                          \o (IF remaining > 0 THEN <<"luxury_still_available">> ELSE <<>>)]
    ELSE IF status = "over"
    THEN IF transport_cost * 100 > total_budget * 35 /\ total_budget = 0
         THEN [raised |-> "ZeroDivisionError", suggestions |-> <<>>]
         ELSE [raised |-> "",
               suggestions |->
                   <<"over_header">>
                   \o (IF transport_cost * 100 > total_budget * 35
                       THEN <<"over_flights">> ELSE <<>>)
                   \o (IF hotel_cost * 100 > total_budget * 30
                       THEN <<"over_hotel">> ELSE <<>>)
                   \o <<"over_dining">>]
    ELSE IF status = "under"
    THEN [raised |-> "",
          suggestions |-> <<"under_header", "under_upgrade_hotel", "under_premium_experience">>]
    ELSE [raised |-> "", suggestions |-> <<"balanced_summary", "balanced_dining">>]

NoBudgetOutput ==
    [breakdown |-> [transport_usd |-> 0, hotel_usd |-> 0, food_usd |-> 0,
                    activities_usd |-> 0],
     estimated_total_usd |-> 0, total_budget_usd |-> 0, remaining_budget_usd |-> 0,
     status |-> "", suggestions |-> <<>>]

\* optimize_budget: `output` is the BudgetOutput returned (NoBudgetOutput when
\* the call raises), the other fields are the locals of the call
\* optimize_budget; err gives the rounding error of each of its
\* floating-point results
OptimizeBudgetRounded(transport_cost, hotel_cost, num_days_in, total_budget, travel_style, err) ==
    LET num_days == IF num_days_in <= 0 THEN 1 ELSE num_days_in
        style == Strip(Lower(travel_style))
        multiplier == IF style \in StyleNames THEN STYLE_MULTIPLIERS[style]
                      ELSE DEFAULT_MULTIPLIER
        is_luxury == style = "luxury"
        effective_budget == Fl(TimesTenths(total_budget, multiplier), err.effective)
        discretionary == MaxOf2(Fl(effective_budget - transport_cost - hotel_cost,
                                   err.discretionary), 0)
        food_cost == MaxOf2(Fl(TimesTenths(discretionary, 6), err.food),
                            MIN_FOOD_PER_DAY * num_days)
        activities_cost == MaxOf2(Fl(TimesTenths(discretionary, 4), err.activities),
                                  MIN_ACTIVITIES_PER_DAY * num_days)
        estimated_total == Fl(transport_cost + hotel_cost + food_cost + activities_cost,
                              err.total)
        remaining == total_budget - estimated_total
        status == ClassifyStatusRounded(is_luxury, estimated_total, effective_budget,
                                        err.threshold)
        sug == GenerateSuggestions(status, transport_cost, hotel_cost, total_budget,
                                   remaining, is_luxury)
    IN  [raised |-> sug.raised,
         num_days |-> num_days,
         style |-> style,
         is_luxury |-> is_luxury,
         effective_budget |-> effective_budget,
         discretionary |-> discretionary,
         food_cost |-> food_cost,
         activities_cost |-> activities_cost,
         estimated_total |-> estimated_total,
         output |->
            IF sug.raised # "" THEN NoBudgetOutput
            ELSE [breakdown |-> [transport_usd |-> Round2(transport_cost),
                                 hotel_usd |-> Round2(hotel_cost),
                                 food_usd |-> Round2(food_cost),
                                 activities_usd |-> Round2(activities_cost)],
                  estimated_total_usd |-> Round2(estimated_total),
                  total_budget_usd |-> Round2(total_budget),
                  remaining_budget_usd |-> Round2(remaining),
                  status |-> status,
                  suggestions |-> sug.suggestions]]

\* optimize_budget in exact arithmetic
OptimizeBudget(transport_cost, hotel_cost, num_days_in, total_budget, travel_style) ==
    OptimizeBudgetRounded(transport_cost, hotel_cost, num_days_in, total_budget,
                          travel_style, NoRounding)

\* ---- inputs of optimize_budget ----
TransportCosts == {0, USD(500), USD(2500), 123450}
HotelCosts == {0, USD(600)}
NumDaysInputs == {-1, 0, 1, 5}
TotalBudgets == {USD(-1000), 0, USD(1), USD(2000)}
TravelStyles ==
    {"luxury", "LUXURY", " Luxury ", "affordable", "Affordable", "standard",
     "premium", "PREMIUM\n", "backpacker", ""}

BudgetArgs(t, h, d, b, s) ==
    [transport_cost |-> t, hotel_cost |-> h, num_days |-> d,
     total_budget |-> b, travel_style |-> s]

\* the itinerary builder / budget engine are not running
ItinOff == [phase |-> "off"]
BudOff == [phase |-> "off"]
DepsOff == [phase |-> "off"]
ExtOff == [phase |-> "off"]
MgrOff == [phase |-> "off"]
TrkOff == [phase |-> "off"]
FetchOff == [phase |-> "off"]
RaceOff == [phase |-> "off"]
\* the variables of the specifications that are not running
OthersOff(running) ==
    /\ "itin" \in running \/ itin = ItinOff
    /\ "bud" \in running \/ bud = BudOff
    /\ "deps" \in running \/ deps = DepsOff
    /\ "ext" \in running \/ ext = ExtOff
    /\ "mgr" \in running \/ mgr = MgrOff
    /\ "trk" \in running \/ trk = TrkOff
    /\ "fetch" \in running \/ fetch = FetchOff
    /\ "race" \in running \/ race = RaceOff

Init ==
    /\ OrchInit
    /\ OthersOff({})

Next ==
    \/ \E t \in CalledTools : PreToolUse(t)
    \/ \E c \in inflight : \E r \in WorkerResponses(c.tool, c.id) : PostToolUse(c, r)
    \/ \E sid \in SessionIds : BeginPlan(sid)
    \/ FinishPlan
    \/ \E sid \in SessionIds : ReplanNotFound(sid)
    \/ \E sid \in SessionIds : \E ch \in ReplanChanges : ReplanNoop(sid, ch)
    \/ \E sid \in SessionIds : \E ch \in ReplanChanges : ReplanInvalid(sid, ch)
    \/ \E sid \in SessionIds : \E ch \in ReplanChanges : BeginReplan(sid, ch)
    \/ FinishReplan
    \/ \E sid \in SessionIds : \E expired \in BOOLEAN : BeginChat(sid, expired)
    \/ \E sid \in SessionIds : BeginChatNew(sid)
    \/ FinishChat

Spec == Init /\ [][Next]_vars

(***************************************************************************)
(* build_itinerary applied to bounded inputs.                              *)
(***************************************************************************)
InitItin ==
    /\ OrchInit
    /\ OthersOff({"itin"})
    /\ \E e \in EndDates : \E f \in ForecastLists : \E d \in DiscoveryInputs :
          itin = [phase |-> "called", args |-> ItinArgs(e, f, d), days |-> <<>>]

BuildItineraryCall ==
    /\ itin.phase = "called"
    /\ itin' = [itin EXCEPT !.phase = "returned", !.days = BuildItinerary(itin.args)]
    /\ UNCHANGED <<orchVars, bud, deps, ext, mgr, trk, fetch, race>>

NextItin == BuildItineraryCall

SpecItin == InitItin /\ [][NextItin]_vars

(***************************************************************************)
(* optimize_budget applied to bounded inputs.                              *)
(***************************************************************************)
InitBudget ==
    /\ OrchInit
    /\ OthersOff({"bud"})
    /\ \E t \in TransportCosts : \E h \in HotelCosts : \E d \in NumDaysInputs :
       \E b \in TotalBudgets : \E s \in TravelStyles :
          bud = [phase |-> "called", args |-> BudgetArgs(t, h, d, b, s), result |-> None]

OptimizeBudgetCall ==
    /\ bud.phase = "called"
    /\ bud' = [bud EXCEPT !.phase = "returned",
                          !.result = OptimizeBudget(bud.args.transport_cost,
                                                    bud.args.hotel_cost,
                                                    bud.args.num_days,
                                                    bud.args.total_budget,
                                                    bud.args.travel_style)]
    /\ UNCHANGED <<orchVars, itin, deps, ext, mgr, trk, fetch, race>>

NextBudget == OptimizeBudgetCall

SpecBudget == InitBudget /\ [][NextBudget]_vars

(***************************************************************************)
(* optimize_budget in floating point: the same call, with every rounding   *)
(* error that its operations can make.                                     *)
(***************************************************************************)
\* One cent stands for the unit in the last place: it is the smallest error
\* that keeps every amount a whole number of cents, as the products need.
RoundingErrors == {-10, 0, 10}

FloatStyles == {"affordable", "standard", "PREMIUM\n", "luxury"}
FloatDays == {0, 5}

InitBudgetFloat ==
    /\ OrchInit
    /\ OthersOff({"bud"})
    /\ \E t \in TransportCosts : \E h \in HotelCosts : \E d \in FloatDays :
       \E b \in TotalBudgets : \E s \in FloatStyles :
       \E err \in [DOMAIN NoRounding -> RoundingErrors] :
          bud = [phase |-> "called", args |-> BudgetArgs(t, h, d, b, s),
                 err |-> err, result |-> None]

OptimizeBudgetFloatCall ==
    /\ bud.phase = "called"
    /\ bud' = [bud EXCEPT !.phase = "returned",
                          !.result = OptimizeBudgetRounded(bud.args.transport_cost,
                                                           bud.args.hotel_cost,
                                                           bud.args.num_days,
                                                           bud.args.total_budget,
                                                           bud.args.travel_style,
                                                           bud.err)]
    /\ UNCHANGED <<orchVars, itin, deps, ext, mgr, trk, fetch, race>>

NextBudgetFloat == OptimizeBudgetFloatCall

SpecBudgetFloat == InitBudgetFloat /\ [][NextBudgetFloat]_vars

(***************************************************************************)
(* get_affected_agents applied to bounded inputs: two lists of field names *)
(* and their concatenation.                                                *)
(***************************************************************************)
MaxFields == 2        \* length of the first list of changed fields
MaxMoreFields == 1    \* length of the second list of changed fields

\* get_affected_agents as the code runs it: a loop over the list that
\* updates `affected` with DEPENDENCY_MAP.get(field_name, [])
RECURSIVE AffectedLoop(_, _, _)
AffectedLoop(changed_fields, i, affected) ==
    IF i > Len(changed_fields) THEN affected
    ELSE LET field_name == changed_fields[i]
             field_deps == IF field_name \in DOMAIN DEPENDENCY_MAP
                           THEN DEPENDENCY_MAP[field_name]
                           ELSE {}
         IN  AffectedLoop(changed_fields, i + 1, affected \cup field_deps)

\* faulty variant of GetAffectedAgentsList: only the last field counts
GetAffectedAgentsLast(changed_fields) ==
    IF changed_fields = <<>> THEN {}
    ELSE AffectedLoop(<<changed_fields[Len(changed_fields)]>>, 1, {})

GetAffectedAgentsList(changed_fields) == AffectedLoop(changed_fields, 1, {})

\* the fields of PlanRequest (`dates` names both dates) and a name that is none
FieldNames ==
    {"destination", "start_date", "end_date", "dates", "budget_usd", "origin",
     "travel_style", "preferences", "dislikes", "unknown_field"}

InitDeps ==
    /\ OrchInit
    /\ OthersOff({"deps"})
    /\ \E a \in SeqsUpTo(FieldNames, MaxFields) :
       \E b \in SeqsUpTo(FieldNames, MaxMoreFields) :
          deps = [phase |-> "called", a |-> a, b |-> b,
                  of_a |-> {}, of_b |-> {}, of_both |-> {}]

GetAffectedAgentsCall ==
    /\ deps.phase = "called"
    /\ deps' = [deps EXCEPT !.phase = "returned",
                            !.of_a = GetAffectedAgentsList(deps.a),
                            !.of_b = GetAffectedAgentsList(deps.b),
                            !.of_both = GetAffectedAgentsList(deps.a \o deps.b)]
    /\ UNCHANGED <<orchVars, itin, bud, ext, mgr, trk, fetch, race>>

NextDeps == GetAffectedAgentsCall

SpecDeps == InitDeps /\ [][NextDeps]_vars

(***************************************************************************)
(* _extract_result_text on Python values (agents/orchestrator.py).  A      *)
(* value is None, a str, an int, a list, a dict (its items in insertion    *)
(* order) or an object json cannot encode.  json.dumps writes the default  *)
(* separators; json.loads reads the encodings of JsonValues and rejects    *)
(* every other string.                                                     *)
(***************************************************************************)
MaxParts == 2      \* length of a content list

PyNone == [t |-> "none"]
PyStr(s) == [t |-> "str", s |-> s]
PyInt(n) == [t |-> "int", n |-> n]
PyList(items) == [t |-> "list", items |-> items]
PyDict(items) == [t |-> "dict", items |-> items]
PyObject == [t |-> "object"]

\* `key in d`
HasKey(d, key) == \E i \in 1..Len(d.items) : d.items[i][1] = key

\* d[key]
GetItem(d, key) ==
    d.items[CHOOSE i \in 1..Len(d.items) : d.items[i][1] = key][2]

\* d.get(key, default)
DictGet(d, key, default) == IF HasKey(d, key) THEN GetItem(d, key) ELSE default

\* a backslash before every character of `special`
RECURSIVE EscapeFrom(_, _, _)
EscapeFrom(s, i, special) ==
    IF i > Len(s) THEN ""
    ELSE LET ch == CharAt(s, i)
         IN  (IF ch \in special THEN "\\" \o ch ELSE ch)
                 \o EscapeFrom(s, i + 1, special)

RECURSIVE JoinFrom(_, _, _)
JoinFrom(strs, i, sep) ==
    IF i > Len(strs) THEN ""
    ELSE IF i = Len(strs) THEN strs[i]
    ELSE strs[i] \o sep \o JoinFrom(strs, i + 1, sep)

\* json.dumps raises TypeError on a value it cannot encode
RECURSIVE Serialisable(_)
Serialisable(v) ==
    CASE v.t = "object" -> FALSE
      [] v.t = "list" -> \A i \in 1..Len(v.items) : Serialisable(v.items[i])
      [] v.t = "dict" -> \A i \in 1..Len(v.items) : Serialisable(v.items[i][2])
      [] OTHER -> TRUE

\* json.dumps of a value it can encode
RECURSIVE JsonDumps(_)
JsonDumps(v) ==
    CASE v.t = "none" -> "null"
      [] v.t = "str" -> "\"" \o EscapeFrom(v.s, 1, {"\"", "\\"}) \o "\""
      [] v.t = "int" -> ToString(v.n)
      [] v.t = "list" ->
            "[" \o JoinFrom([i \in 1..Len(v.items) |-> JsonDumps(v.items[i])],
                            1, ", ") \o "]"
      [] v.t = "dict" ->
            "{" \o JoinFrom([i \in 1..Len(v.items) |->
                                "\"" \o v.items[i][1] \o "\": "
                                     \o JsonDumps(v.items[i][2])],
                            1, ", ") \o "}"

\* str() of a value: a str is itself, anything else prints as its repr
RECURSIVE PyRepr(_)
PyRepr(v) ==
    CASE v.t = "none" -> "None"
      [] v.t = "str" -> "'" \o EscapeFrom(v.s, 1, {"'", "\\"}) \o "'"
      [] v.t = "int" -> ToString(v.n)
      [] v.t = "list" ->
            "[" \o JoinFrom([i \in 1..Len(v.items) |-> PyRepr(v.items[i])],
                            1, ", ") \o "]"
      [] v.t = "dict" ->
            "{" \o JoinFrom([i \in 1..Len(v.items) |->
                                "'" \o v.items[i][1] \o "': "
                                    \o PyRepr(v.items[i][2])],
                            1, ", ") \o "}"
      [] v.t = "object" -> "<object>"

PyStrOf(v) == IF v.t = "str" THEN v.s ELSE PyRepr(v)

\* content parts
TextPart(text) == PyDict(<<<<"type", PyStr("text")>>, <<"text", PyStr(text)>>>>)
TextlessPart == PyDict(<<<<"type", PyStr("text")>>>>)
NullTextPart == PyDict(<<<<"type", PyStr("text")>>, <<"text", PyNone>>>>)
ImagePart == PyDict(<<<<"type", PyStr("image")>>, <<"data", PyStr("aGk=")>>>>)
UntypedPart == PyDict(<<<<"text", PyStr("stray")>>>>)
StringPart == PyStr("note")

\* the MCP wrapper {"content": [...]}
Wrapper(parts) == PyDict(<<<<"content", PyList(parts)>>>>)

\* texts a worker can return: not JSON, a JSON object, a JSON list, the
\* encoding of a wrapper, and the empty string
PlainX == "Error: upstream failure"
ObjectX == JsonDumps(PyDict(<<<<"daily_forecasts", PyList(<<>>)>>>>))
ListX == JsonDumps(PyList(<<>>))
WrappedX == JsonDumps(Wrapper(<<TextPart(PlainX)>>))
Texts == {PlainX, ObjectX, ListX, WrappedX}

Parts ==
    {TextPart(x) : x \in Texts \cup {""}}
        \cup {TextlessPart, NullTextPart, ImagePart, UntypedPart, StringPart}

PartLists == SeqsUpTo(Parts, MaxParts)

\* dicts that are not a wrapper of parts
RawDataDict == PyDict(<<<<"daily_forecasts", PyList(<<>>)>>>>)
ContentStrDict == PyDict(<<<<"content", PyStr("plain")>>>>)
UnencodableDict == PyDict(<<<<"data", PyObject>>>>)

\* the values whose encodings json.loads reads back
JsonValues ==
    {Wrapper(parts) : parts \in PartLists}
        \cup {PyList(parts) : parts \in SeqsUpTo(Parts, 1)}
        \cup {RawDataDict, ContentStrDict}

JsonTable == {<<JsonDumps(v), v>> : v \in JsonValues}

\* json.loads: the value, or JSONDecodeError
JsonLoadsValue(s) ==
    LET hits == {p \in JsonTable : p[1] = s}
    IN  IF hits = {} THEN [exc |-> "JSONDecodeError", value |-> PyNone]
        ELSE [exc |-> "", value |-> (CHOOSE p \in hits : TRUE)[2]]

\* isinstance(block, dict) and block.get("type") == "text"
IsTextPart(block) ==
    block.t = "dict" /\ DictGet(block, "type", PyNone) = PyStr("text")

\* `for block in content: if ...: return block["text"]`: whether the loop
\* returns, what it returns, and the KeyError of a part that has no text
FirstTextPart(content) ==
    IF \E i \in 1..Len(content) : IsTextPart(content[i])
    THEN LET i == CHOOSE i \in 1..Len(content) :
                      /\ IsTextPart(content[i])
                      /\ \A j \in 1..(i - 1) : ~IsTextPart(content[j])
         IN  IF HasKey(content[i], "text")
             THEN [returns |-> TRUE, raised |-> "",
                   value |-> GetItem(content[i], "text")]
             ELSE [returns |-> TRUE, raised |-> "KeyError", value |-> PyNone]
    ELSE [returns |-> FALSE, raised |-> "", value |-> PyNone]

Returned(value) == [raised |-> "", value |-> value]

\* faulty variant of ExtractResultTextValue: a string is never unwrapped
ExtractNoUnwrap(tool_response) ==
    IF tool_response.t = "str" THEN Returned(tool_response)
    ELSE Returned(PyNone)

\* _extract_result_text: the returned value (PyNone for None) or the
\* exception that leaves the function
ExtractResultTextValue(tool_response) ==
    CASE tool_response.t = "none" -> Returned(PyNone)
      [] tool_response.t = "dict" ->
            LET content == DictGet(tool_response, "content", PyList(<<>>))
                ft == IF content.t = "list" THEN FirstTextPart(content.items)
                      ELSE FirstTextPart(<<>>)
            IN  IF ft.returns THEN [raised |-> ft.raised, value |-> ft.value]
                ELSE IF Serialisable(tool_response)
                     THEN Returned(PyStr(JsonDumps(tool_response)))
                     ELSE Returned(PyNone)
      [] tool_response.t = "str" ->
            LET parsed == JsonLoadsValue(tool_response.s)
                ft == IF /\ parsed.exc = ""
                         /\ parsed.value.t = "dict"
                         /\ HasKey(parsed.value, "content")
                         /\ GetItem(parsed.value, "content").t = "list"
                      THEN FirstTextPart(GetItem(parsed.value, "content").items)
                      ELSE FirstTextPart(<<>>)
            IN  IF ft.returns THEN [raised |-> ft.raised, value |-> ft.value]
                ELSE Returned(tool_response)
      [] tool_response.t = "list" ->
            LET ft == FirstTextPart(tool_response.items)
            IN  IF ft.returns THEN [raised |-> ft.raised, value |-> ft.value]
                ELSE Returned(PyStr(PyStrOf(tool_response)))
      [] OTHER -> Returned(PyStr(PyStrOf(tool_response)))

\* raw responses: absent, a wrapper, a wrapper's encoding, a bare list of
\* parts, a bare string, other dicts and their encodings, and a number
RawResponses ==
    {PyNone, PyInt(42), RawDataDict, ContentStrDict, UnencodableDict,
     PyStr(JsonDumps(ContentStrDict)), PyStr("")}
        \cup {PyStr(x) : x \in Texts}
        \cup {Wrapper(parts) : parts \in PartLists}
        \cup {PyStr(JsonDumps(Wrapper(parts))) : parts \in PartLists}
        \cup {PyList(parts) : parts \in PartLists}
        \cup {PyStr(JsonDumps(PyList(parts))) : parts \in SeqsUpTo(Parts, 1)}

InitExtract ==
    /\ OrchInit
    /\ OthersOff({"ext"})
    /\ \E r \in RawResponses :
          ext = [phase |-> "called", tool_response |-> r,
                 raised |-> "", value |-> PyNone]

ExtractResultTextCall ==
    /\ ext.phase = "called"
    /\ LET res == ExtractResultTextValue(ext.tool_response)
       IN  ext' = [ext EXCEPT !.phase = "returned", !.raised = res.raised,
                              !.value = res.value]
    /\ UNCHANGED <<orchVars, itin, bud, deps, mgr, trk, fetch, race>>

NextExtract == ExtractResultTextCall

SpecExtract == InitExtract /\ [][NextExtract]_vars

(***************************************************************************)
(* The chat client manager (utils/client_manager.py), the chat route       *)
(* (routes/chat.py) and the client registry of the orchestrator.  The      *)
(* server runs the chat handlers and the cleanup loop as asyncio tasks: a  *)
(* task runs alone until it awaits something that suspends it, which here  *)
(* is the connect or disconnect of an SDK client and the model's reply.    *)
(* Time is counted in minutes.                                             *)
(***************************************************************************)
MaxRequests == 3   \* chat requests over one behaviour
MaxTicks == 2      \* advances of the clock over one behaviour

SESSION_TTL_MINUTES == 30

ChatIds == {"c1", "c2"}

\* the clock advances by a minute or by the whole TTL
TickSteps == {1, SESSION_TTL_MINUTES}

NoChatSession == [exists |-> FALSE, last_active |-> 0, gen |-> 0]
NoRequest == [pc |-> "none", sid |-> "", found |-> "", old_gen |-> 0, gen |-> 0]
SweepAsleep == [pc |-> "sleep", expired |-> <<>>]

\* ChatSession.is_expired
IsExpired(m, sid) ==
    m.now - m.sessions[sid].last_active > SESSION_TTL_MINUTES

\* a chat request for the id is being processed
InFlight(m, sid) ==
    \E r \in DOMAIN m.reqs : m.reqs[r].pc # "none" /\ m.reqs[r].sid = sid

\* the sequence without the element
RECURSIVE Without(_, _)
Without(seq, x) ==
    IF seq = <<>> THEN <<>>
    ELSE IF Head(seq) = x THEN Without(Tail(seq), x)
    ELSE <<Head(seq)>> \o Without(Tail(seq), x)

\* the elements of the sequence that satisfy the test, in order
RECURSIVE ExpiredIn(_, _)
ExpiredIn(m, seq) ==
    IF seq = <<>> THEN <<>>
    ELSE IF IsExpired(m, Head(seq)) THEN <<Head(seq)>> \o ExpiredIn(m, Tail(seq))
    ELSE ExpiredIn(m, Tail(seq))

\* `self._sessions[new_id] = ChatSession(session_id=new_id, tracker=AgentTracker())`
CreateSession(m, sid) ==
    [m EXCEPT !.sessions[sid] = [exists |-> TRUE, last_active |-> m.now,
                                 gen |-> m.gens[sid] + 1],
              !.gens[sid] = @ + 1,
              !.order = IF m.sessions[sid].exists THEN @ ELSE Append(@, sid)]

\* `self._sessions.pop(session_id, None)`
PopSession(m, sid) ==
    [m EXCEPT !.sessions[sid] = NoChatSession, !.order = Without(@, sid)]

\* close_chat_session: `_chat_clients.pop(session_id, None)`
PopClient(m, sid) == [m EXCEPT !.clients = @ \ {sid}]

\* route `session.touch()` and run_chat_turn up to its first suspension:
\* a registered client is queried, otherwise a new one connects
EnterTurn(m, r, sid) ==
    LET touched == [m EXCEPT !.sessions[sid].last_active = m.now]
    IN  [touched EXCEPT !.reqs[r].pc = IF sid \in m.clients THEN "turn" ELSE "connect",
                        !.reqs[r].gen = touched.sessions[sid].gen]

\* the cleanup loop removing the sessions of its `expired` list, up to the
\* first disconnect that suspends it.  `raced` records the ids it took from
\* under a request in flight, and whether the session taken was expired.
RECURSIVE SweepRun(_, _)
SweepRun(m, expired) ==
    IF expired = <<>> THEN [m EXCEPT !.sweep = SweepAsleep]
    ELSE LET sid == Head(expired)
         IN  IF ~m.sessions[sid].exists THEN SweepRun(m, Tail(expired))
             ELSE LET noted == [m EXCEPT !.raced =
                                   IF InFlight(m, sid)
                                   THEN @ \cup {[sid |-> sid,
                                                 expired |-> IsExpired(m, sid)]}
                                   ELSE @]
                      popped == PopSession(noted, sid)
                  IN  IF sid \in m.clients
                      THEN [PopClient(popped, sid) EXCEPT
                               !.sweep = [pc |-> "disconnect",
                                          expired |-> Tail(expired)]]
                      ELSE SweepRun(popped, Tail(expired))

\* the state after the application's startup: `await manager.start()`
InitManager ==
    /\ OrchInit
    /\ OthersOff({"mgr"})
    /\ mgr = [phase |-> "on",
              now |-> 0,
              ticks |-> 0,
              sessions |-> [s \in ChatIds |-> NoChatSession],
              order |-> <<>>,
              gens |-> [s \in ChatIds |-> 0],
              clients |-> {},
              reqs |-> [r \in 1..MaxRequests |-> NoRequest],
              arrivals |-> 0,
              last_request |-> [s \in ChatIds |-> -1],
              sweep |-> SweepAsleep,
              raced |-> {}]

OthersIdle == UNCHANGED <<orchVars, itin, bud, deps, ext, trk, fetch, race>>

Tick(d) ==
    /\ mgr.ticks < MaxTicks
    /\ mgr' = [mgr EXCEPT !.now = @ + d, !.ticks = @ + 1]
    /\ OthersIdle

\* POST /api/chat: get_or_create, touch and the start of run_chat_turn
ChatArrive(sid) ==
    /\ mgr.arrivals < MaxRequests
    /\ LET r == mgr.arrivals + 1
           s == mgr.sessions[sid]
           found == IF ~s.exists THEN "none"
                    ELSE IF IsExpired(mgr, sid) THEN "expired" ELSE "live"
           m0 == [mgr EXCEPT !.arrivals = r,
                             !.last_request[sid] = mgr.now,
                             !.reqs[r] = [pc |-> "arrived", sid |-> sid,
                                          found |-> found, old_gen |-> s.gen,
                                          gen |-> 0]]
       IN  mgr' =
             CASE found = "live" -> EnterTurn(m0, r, sid)
               [] found = "none" -> EnterTurn(CreateSession(m0, sid), r, sid)
               [] found = "expired" ->
                    \* `await self._remove_session(session_id)`
                    IF sid \in mgr.clients
                    THEN [PopClient(PopSession(m0, sid), sid) EXCEPT
                             !.reqs[r].pc = "recreate"]
                    ELSE EnterTurn(CreateSession(PopSession(m0, sid), sid), r, sid)
    /\ OthersIdle

\* POST /api/chat without an id: the manager draws a uuid no one has used
ChatArriveNew(sid) ==
    /\ mgr.gens[sid] = 0
    /\ mgr.last_request[sid] = -1
    /\ sid \notin mgr.clients
    /\ ChatArrive(sid)

\* get_or_create after the old client's disconnect returned
ChatRecreated(r) ==
    /\ mgr.reqs[r].pc = "recreate"
    /\ mgr' = EnterTurn(CreateSession(mgr, mgr.reqs[r].sid), r, mgr.reqs[r].sid)
    /\ OthersIdle

\* run_chat_turn after connect(): `_chat_clients[session_id] = client`
ChatConnected(r) ==
    /\ mgr.reqs[r].pc = "connect"
    /\ mgr' = [mgr EXCEPT !.clients = @ \cup {mgr.reqs[r].sid},
                          !.reqs[r].pc = "turn"]
    /\ OthersIdle

\* the reply is received and the route returns
ChatFinish(r) ==
    /\ mgr.reqs[r].pc = "turn"
    /\ mgr' = [mgr EXCEPT !.reqs[r] = NoRequest]
    /\ OthersIdle

\* DELETE /api/chat/{session_id}: close_session
EndChat(sid) ==
    /\ mgr.sessions[sid].exists
    /\ mgr' = PopClient(PopSession(mgr, sid), sid)
    /\ OthersIdle

\* _cleanup_loop after its sleep: list the expired sessions, remove them
SweepWake ==
    /\ mgr.sweep.pc = "sleep"
    /\ mgr' = SweepRun(mgr, ExpiredIn(mgr, mgr.order))
    /\ OthersIdle

\* _cleanup_loop after a disconnect returned: the rest of the list
SweepResume ==
    /\ mgr.sweep.pc = "disconnect"
    /\ mgr' = SweepRun(mgr, mgr.sweep.expired)
    /\ OthersIdle

\* `except Exception as exc: logger.error(...)`: the iteration is abandoned
\* and the loop sleeps again
SweepError ==
    /\ mgr.sweep.pc = "disconnect"
    /\ mgr' = [mgr EXCEPT !.sweep = SweepAsleep]
    /\ OthersIdle

NextManager ==
    \/ \E d \in TickSteps : Tick(d)
    \/ \E sid \in ChatIds : ChatArrive(sid)
    \/ \E sid \in ChatIds : ChatArriveNew(sid)
    \/ \E r \in 1..MaxRequests : ChatRecreated(r)
    \/ \E r \in 1..MaxRequests : ChatConnected(r)
    \/ \E r \in 1..MaxRequests : ChatFinish(r)
    \/ \E sid \in ChatIds : EndChat(sid)
    \/ SweepWake
    \/ SweepResume
    \/ SweepError

SpecManager == InitManager /\ [][NextManager]_vars

\* the event loop resumes every task that is ready: the cleanup loop wakes
\* after its sleep, and connects, disconnects and replies come back
SpecManagerFair ==
    /\ SpecManager
    /\ WF_vars(SweepWake)
    /\ WF_vars(SweepResume)
    /\ \A r \in 1..MaxRequests :
          WF_vars(ChatRecreated(r) \/ ChatConnected(r) \/ ChatFinish(r))

(***************************************************************************)
(* One AgentTracker driven through its operations and the two hooks.       *)
(* Tool calls run in parallel: a call is running from its pre_tool_use     *)
(* event to its post_tool_use event, and the events of different calls     *)
(* interleave freely.  The tracker keeps no link from a post event to the  *)
(* call that caused it; `running`, `last`, `posts` and `orderly` are       *)
(* history kept for the properties, and `summary` is what the last         *)
(* operation returned.                                                     *)
(***************************************************************************)
MaxTrackerCalls == 2
MaxTrackerOps == 2

\* What a post event may carry here: nothing, a well-formed result, an
\* empty text.
TrackerResponses(t, c) ==
    LET d == AgentDomain(t)
    IN IF d = "" THEN {NoneResponse}
       ELSE {NoneResponse,
             DictResponse(WrapperDoc(<<TextBlock(JsonText(PayloadDoc(d, c), c))>>)),
             DictResponse(WrapperDoc(<<TextBlock(PlainText("", c))>>))}

\* The domains marked done by a direct call of mark_agent_done.
MarkedDirectly == {"hotel"}

\* `before` is the tracker as a post event or a reset found it.
NoTrackerOp ==
    [op |-> "none", tool |-> "", before |-> EmptyTracker, text |-> NoneText]

InitTracker ==
    /\ OrchInit
    /\ OthersOff({"trk"})
    /\ trk = [phase |-> "on", tracker |-> EmptyTracker, running |-> {},
              calls |-> 0, ops |-> 0, posts |-> 0, orderly |-> TRUE,
              last |-> NoTrackerOp, summary |-> NoSummary]

TrackerOthers == UNCHANGED <<orchVars, itin, bud, deps, ext, mgr, fetch, race>>

\* pre_tool_use of a new call of tool t
TrackerPre(t) ==
    /\ trk.phase = "on"
    /\ trk.calls < MaxTrackerCalls
    /\ trk' = [trk EXCEPT
                 !.tracker = PreToolUseHook(@, t, trk.calls + 1, 1),
                 !.running = @ \cup {[id |-> trk.calls + 1, tool |-> t]},
                 !.calls = @ + 1,
                 !.summary = NoSummary,
                 !.last = [op |-> "pre", tool |-> t, before |-> EmptyTracker,
                           text |-> NoneText]]
    /\ TrackerOthers

\* post_tool_use of the running call c, carrying tool_response r
TrackerPost(c, r) ==
    /\ trk.phase = "on"
    /\ c \in trk.running
    /\ LET text == ExtractResultText(r, c.id)
           mapped == AgentDomain(c.tool) # ""
       IN  trk' = [trk EXCEPT
                     !.tracker = PostToolUseHook(@, c.tool, r, c.id),
                     !.running = @ \ {c},
                     !.posts = IF mapped THEN @ + 1 ELSE @,
                     !.orderly = @ /\ (mapped => Truthy(text)),
                     !.summary = NoSummary,
                     !.last = [op |-> "post", tool |-> c.tool,
                               before |-> trk.tracker, text |-> text]]
    /\ TrackerOthers

\* post_tool_use of tool t for which this tracker saw no pre_tool_use
TrackerStrayPost(t, r) ==
    /\ trk.phase = "on"
    /\ trk.ops < MaxTrackerOps
    /\ trk' = [trk EXCEPT
                 !.tracker = PostToolUseHook(@, t, r, 0),
                 !.ops = @ + 1,
                 !.posts = IF AgentDomain(t) # "" THEN @ + 1 ELSE @,
                 !.orderly = FALSE,
                 !.summary = NoSummary,
                 !.last = [op |-> "post", tool |-> t, before |-> trk.tracker,
                           text |-> ExtractResultText(r, 0)]]
    /\ TrackerOthers

\* tracker.mark_agent_done(d)
TrackerMarkDone(d) ==
    /\ trk.phase = "on"
    /\ trk.ops < MaxTrackerOps
    /\ trk' = [trk EXCEPT
                 !.tracker = MarkAgentDone(@, d),
                 !.ops = @ + 1,
                 !.summary = NoSummary,
                 !.last = [op |-> "mark", tool |-> "", before |-> EmptyTracker,
                           text |-> NoneText]]
    /\ TrackerOthers

\* tracker.record_error(msg)
TrackerError(msg) ==
    /\ trk.phase = "on"
    /\ trk.ops < MaxTrackerOps
    /\ trk' = [trk EXCEPT
                 !.tracker = RecordError(@, msg),
                 !.ops = @ + 1,
                 !.summary = NoSummary,
                 !.last = [op |-> "error", tool |-> "", before |-> EmptyTracker,
                           text |-> NoneText]]
    /\ TrackerOthers

\* tracker.reset(); calls that are running keep running
TrackerResetOp ==
    /\ trk.phase = "on"
    /\ trk.ops < MaxTrackerOps
    /\ trk' = [trk EXCEPT
                 !.tracker = TrackerReset(@),
                 !.ops = @ + 1,
                 !.posts = 0,
                 !.orderly = (trk.running = {}),
                 !.summary = NoSummary,
                 !.last = [op |-> "reset", tool |-> "", before |-> trk.tracker,
                           text |-> NoneText]]
    /\ TrackerOthers

\* tracker.get_summary()
TrackerSummary ==
    /\ trk.phase = "on"
    /\ trk.last.op # "summary"
    /\ trk' = [trk EXCEPT
                 !.summary = GetSummary(trk.tracker),
                 !.last = [op |-> "summary", tool |-> "", before |-> EmptyTracker,
                           text |-> NoneText]]
    /\ TrackerOthers

NextTracker ==
    \/ \E t \in CalledTools : TrackerPre(t)
    \/ \E c \in trk.running : \E r \in TrackerResponses(c.tool, c.id) : TrackerPost(c, r)
    \/ \E t \in CalledTools : \E r \in TrackerResponses(t, 0) : TrackerStrayPost(t, r)
    \/ \E d \in MarkedDirectly : TrackerMarkDone(d)
    \/ TrackerError("worker failed")
    \/ TrackerResetOp
    \/ TrackerSummary

SpecTracker == InitTracker /\ [][NextTracker]_vars

(***************************************************************************)
(* serp_fetch (utils/serp_fetch.py): one call, from its entry to its       *)
(* return.  Each request either yields a document or raises; the except    *)
(* clauses decide between another attempt and the empty document.          *)
(* `outcomes` is the history of the requests made, `sleeps` counts the     *)
(* waits between attempts.                                                 *)
(***************************************************************************)
max_retries == 2

\* What one pass through the try block may end in: the parsed document, or
\* an exception raised by the request, the status check or the JSON parser.
RequestOutcomes ==
    {"ok", "HTTPStatusError", "RequestError", "TimeoutException",
     "JSONDecodeError", "RuntimeError"}

\* faulty variant of Handler: every exception is retried
HandlerRetriesAll(exc) == "retry"

\* The classes among them that derive from Exception (all of them: httpx
\* errors, ValueError from response.json(), RuntimeError).
ExceptionSubclasses ==
    {"HTTPStatusError", "RequestError", "TimeoutException", "JSONDecodeError",
     "RuntimeError"}

\* the except clause that handles exc: line 47, line 64, or none
Handler(exc) ==
    IF exc \in {"HTTPStatusError", "RequestError", "TimeoutException"}
    THEN "retry"
    ELSE IF exc \in ExceptionSubclasses THEN "give up"
    ELSE "propagate"

EmptyDoc == [kind |-> "empty", engine |-> "", attempt |-> 0]

\* params on entry: the engine asked for, and whether the caller set "output"
FetchParams ==
    {[engine |-> e, output |-> o, api_key |-> ""] :
        e \in {"google_flights", "google_hotels"}, o \in {"", "json", "html"}}

InitFetch ==
    /\ OrchInit
    /\ OthersOff({"fetch"})
    /\ \E key \in {"", "secret"} : \E p \in FetchParams :
          fetch = [phase |-> "called", SERPAPI_KEY |-> key, params |-> p,
                   attempt |-> 0, outcomes |-> <<>>, sleeps |-> 0,
                   result |-> EmptyDoc, raised |-> ""]

FetchOthers == UNCHANGED <<orchVars, itin, bud, deps, ext, mgr, trk, race>>

\* lines 24-35: the key check, the two parameters, the first loop iteration
FetchEnter ==
    /\ fetch.phase = "called"
    /\ IF fetch.SERPAPI_KEY = ""
       THEN fetch' = [fetch EXCEPT !.phase = "returned", !.result = EmptyDoc]
       ELSE fetch' = [fetch EXCEPT
                        !.phase = "requesting",
                        !.attempt = 1,
                        !.params.api_key = fetch.SERPAPI_KEY,
                        !.params.output = IF @ = "" THEN "json" ELSE @]
    /\ FetchOthers

\* lines 36-70: one attempt and the except clause its outcome selects
FetchAttempt(outcome) ==
    /\ fetch.phase = "requesting"
    /\ LET made == [fetch EXCEPT !.outcomes = Append(@, outcome)]
       IN  fetch' =
             IF outcome = "ok"
             THEN [made EXCEPT !.phase = "returned",
                               !.result = [kind |-> "doc",
                                           engine |-> fetch.params.engine,
                                           attempt |-> fetch.attempt]]
             ELSE IF Handler(outcome) = "retry"
             THEN IF fetch.attempt <= max_retries
                  THEN [made EXCEPT !.phase = "sleeping"]
                  ELSE [made EXCEPT !.phase = "returned", !.result = EmptyDoc]
             ELSE IF Handler(outcome) = "give up"
             THEN [made EXCEPT !.phase = "returned", !.result = EmptyDoc]
             ELSE [made EXCEPT !.phase = "returned", !.raised = outcome]
    /\ FetchOthers

\* line 56 returns: the next iteration of `for attempt in range(1, max_retries + 2)`,
\* or line 72 when the range is used up
FetchWake ==
    /\ fetch.phase = "sleeping"
    /\ fetch' = IF fetch.attempt + 1 < max_retries + 2
                THEN [fetch EXCEPT !.phase = "requesting", !.attempt = @ + 1,
                                   !.sleeps = @ + 1]
                ELSE [fetch EXCEPT !.phase = "returned", !.result = EmptyDoc,
                                   !.sleeps = @ + 1]
    /\ FetchOthers

NextFetch ==
    \/ FetchEnter
    \/ \E outcome \in RequestOutcomes : FetchAttempt(outcome)
    \/ FetchWake

SpecFetch == InitFetch /\ [][NextFetch]_vars

(***************************************************************************)
(* Chat requests that carry the same session id and run at the same time   *)
(* (routes/chat.py, ClientManager.get_or_create, run_chat_turn).  No       *)
(* session expires here.  A request runs alone from its arrival to its     *)
(* first suspending await: connect() when the registry has no client for   *)
(* the id, the model's reply otherwise.  A client is named by the request  *)
(* that created it; a tracker record by the request whose turn made the    *)
(* call.  `wiped` and `overlap` are history kept for the properties.       *)
(***************************************************************************)
MaxRacers == 3       \* chat requests over one behaviour
MaxTurnCalls == 1    \* tool calls recorded during one turn

NoRacer == [pc |-> "none", sid |-> "", client |-> 0, calls |-> 0, seen |-> -1]

\* the requests of the id that are between arrival and return
Racing(rc, sid) ==
    {r \in 1..MaxRacers : rc.reqs[r].sid = sid /\ rc.reqs[r].pc \in {"connect", "turn"}}

\* the requests whose records the tracker of the id holds
Owners(rc, sid) == {rc.tracker[sid][i] : i \in 1..Len(rc.tracker[sid])}

InitRace ==
    /\ OrchInit
    /\ OthersOff({"race"})
    /\ race = [phase |-> "on",
               arrivals |-> 0,
               sessions |-> {},
               reqs |-> [r \in 1..MaxRacers |-> NoRacer],
               registry |-> [s \in ChatIds |-> 0],
               connected |-> {},
               tracker |-> [s \in ChatIds |-> <<>>],
               wiped |-> {},
               overlap |-> FALSE]

RaceOthers == UNCHANGED <<orchVars, itin, bud, deps, ext, mgr, trk, fetch>>

\* POST /api/chat with session id sid: get_or_create (the session is found,
\* or created with a new tracker), touch, then run_chat_turn up to its
\* first suspension: tracker.reset() and the registry lookup
RaceArrive(sid) ==
    /\ race.phase = "on"
    /\ race.arrivals < MaxRacers
    /\ LET r == race.arrivals + 1
           others == Racing(race, sid)
           has_client == race.registry[sid] # 0
       IN  race' = [race EXCEPT
                      !.arrivals = r,
                      !.sessions = @ \cup {sid},
                      !.tracker[sid] = <<>>,
                      !.wiped = @ \cup {[victim |-> v, by |-> r] :
                                            v \in others \cap Owners(race, sid)},
                      !.overlap = @ \/ others # {},
                      !.reqs[r] = [pc |-> IF has_client THEN "turn" ELSE "connect",
                                   sid |-> sid,
                                   client |-> IF has_client THEN race.registry[sid] ELSE r,
                                   calls |-> 0, seen |-> -1]]
    /\ RaceOthers

\* `await client.connect()` returns: `_chat_clients[session_id] = client`,
\* then the query is sent
RaceConnected(r) ==
    /\ race.phase = "on"
    /\ race.reqs[r].pc = "connect"
    /\ race' = [race EXCEPT
                  !.connected = @ \cup {r},
                  !.registry[race.reqs[r].sid] = r,
                  !.reqs[r].pc = "turn"]
    /\ RaceOthers

\* while the reply streams in, the pre_tool_use hook of the request's client
\* records a call in the session's tracker
RaceToolCall(r) ==
    /\ race.phase = "on"
    /\ race.reqs[r].pc = "turn"
    /\ race.reqs[r].calls < MaxTurnCalls
    /\ race' = [race EXCEPT
                  !.tracker[race.reqs[r].sid] = Append(@, r),
                  !.reqs[r].calls = @ + 1]
    /\ RaceOthers

\* the reply is complete: run_chat_turn reads the tracker and returns
RaceFinish(r) ==
    /\ race.phase = "on"
    /\ race.reqs[r].pc = "turn"
    /\ race' = [race EXCEPT
                  !.reqs[r].pc = "done",
                  !.reqs[r].seen = Len(race.tracker[race.reqs[r].sid])]
    /\ RaceOthers

NextRace ==
    \/ \E sid \in ChatIds : RaceArrive(sid)
    \/ \E r \in 1..MaxRacers : RaceConnected(r)
    \/ \E r \in 1..MaxRacers : RaceToolCall(r)
    \/ \E r \in 1..MaxRacers : RaceFinish(r)

SpecRace == InitRace /\ [][NextRace]_vars

(***************************************************************************)
(* Properties of the orchestrator.                                         *)
(***************************************************************************)
TurnTracker == trackers[cur.tracker]
TurnRecords == TurnTracker.tool_call_records
TurnDone(kinds) == cur.phase = "done" /\ cur.kind \in kinds

\* record i of the turn holds a result that decodes and validates for domain d
ValidFor(d, rec) ==
    /\ rec.tool_name \in DomainTools
    /\ TOOL_TO_AGENT[rec.tool_name] = d
    /\ rec.result_json.kind = "json"
    /\ rec.result_json.doc.dtype = "payload"
    /\ rec.result_json.doc.schema = d

\* record i holds a result text that fails to decode or to validate
Malformed(rec) ==
    /\ rec.tool_name \in DomainTools
    /\ Truthy(rec.result_json)
    /\ ~ValidFor(TOOL_TO_AGENT[rec.tool_name], rec)

ValidIdx(d, records) == {i \in 1..Len(records) : ValidFor(d, records[i])}
LastValid(d, records) ==
    records[CHOOSE i \in ValidIdx(d, records) : \A j \in ValidIdx(d, records) : j <= i]
        .result_json.doc.val

\* C1 (as claimed): after a replan with a non-empty affected set, the stored
\* output of every domain outside the affected set equals its value before
\* the replan, whatever workers the delegation caller invoked.
C1_UnaffectedDomainsKept ==
    (TurnDone({"replan"}) /\ response.status = "ok" /\ cur.affected # {}) =>
        \A d \in Domains \ cur.affected :
            sessions[cur.sid].out[d] = cur.before[d]

\* C2 (as claimed): every result a record holds was produced by the call
\* whose pre event created that record, for any interleaving of the events.
C2_ResultPairedWithOwnCall ==
    \A k \in TrackerKeys :
        \A i \in 1..Len(trackers[k].tool_call_records) :
            LET rec == trackers[k].tool_call_records[i]
            IN rec.result_json.kind # "none" => rec.result_json.src = rec.tool_input

OwnIndex(records, c) == CHOOSE i \in 1..Len(records) : records[i].tool_input = c.id

\* the record of call c is the most recent record of its tool without a result
IsLatestUnmatched(records, c) ==
    LET own == OwnIndex(records, c)
    IN /\ records[own].result_json.kind = "none"
       /\ \A j \in (own + 1)..Len(records) :
              records[j].tool_name = c.tool => records[j].result_json.kind # "none"

\* C2 (amended): when the post event of a call arrives while that call's
\* record is the most recent record of its tool that holds no result, the
\* event changes no record but the call's own, and a result attached by it
\* is the one that call produced.
C2_LatestUnmatchedPairsWithOwnCall ==
    [][\A c \in inflight :
          (c \notin inflight' /\ IsLatestUnmatched(TurnRecords, c)) =>
              \A j \in 1..Len(TurnRecords) :
                  trackers'[cur.tracker].tool_call_records[j] # TurnRecords[j] =>
                      /\ j = OwnIndex(TurnRecords, c)
                      /\ trackers'[cur.tracker].tool_call_records[j].result_json.src = c.id
      ]_vars

\* Two calls of one domain tool overlap, the later one has completed and its
\* result sits on its own record while the earlier one is still running.
C2_Witness ==
    /\ cur.phase = "run"
    /\ \E c \in inflight : \E j \in 1..Len(TurnRecords) :
          /\ c.tool \in DomainTools
          /\ TurnRecords[j].tool_name = c.tool
          /\ j > OwnIndex(TurnRecords, c)
          /\ TurnRecords[OwnIndex(TurnRecords, c)].result_json.kind = "none"
          /\ TurnRecords[j].result_json.kind # "none"
          /\ TurnRecords[j].result_json.src = TurnRecords[j].tool_input

\* C3: during and at the end of a chat turn the tracker of the chat session
\* holds only records made in this turn, only completions of calls recorded
\* in this turn and no error of an earlier turn, and the summary returned
\* counts exactly this turn's calls.
C3_ChatTurnSeesOnlyItsOwnCalls ==
    cur.kind = "chat" =>
        /\ \A i \in 1..Len(TurnRecords) : TurnRecords[i].turn = turns
        /\ TurnTracker.agents_completed \subseteq
              {AgentDomain(TurnRecords[i].tool_name) : i \in 1..Len(TurnRecords)}
        /\ \A i \in 1..Len(TurnTracker.errors) : TurnTracker.errors[i].turn = turns
        /\ (cur.phase = "done" /\ response.status = "ok") =>
              /\ response.summary.total_tool_calls =
                    Cardinality({i \in 1..Len(TurnRecords) : TurnRecords[i].turn = turns})
              /\ {response.summary.agents_completed[i] :
                     i \in 1..Len(response.summary.agents_completed)}
                    = TurnTracker.agents_completed

\* A later chat turn of a reused chat session has ended: its tracker held
\* records of the earlier turn on entry and holds a record of this turn now.
C3_Witness ==
    /\ TurnDone({"chat"})
    /\ cur.cleared > 0
    /\ TurnRecords # <<>>

C5_ExtractionToleratesBadRecords ==
    /\ LET x == ExtractStructuredData(TurnTracker)
       IN /\ ~x.raised
          /\ \A d \in Domains :
                x.data[d] = IF ValidIdx(d, TurnRecords) # {} THEN LastValid(d, TurnRecords)
                            ELSE NoneOut
    /\ TurnDone({"plan"}) =>
          /\ response.status = "ok"
          /\ \A d \in Domains :
                response.out[d] = IF ValidIdx(d, TurnRecords) # {}
                                  THEN LastValid(d, TurnRecords) ELSE DefaultOut

\* A full plan ended with one domain's result malformed and another's valid.
C5_Witness ==
    /\ TurnDone({"plan"})
    /\ \E i, j \in 1..Len(TurnRecords) :
          /\ Malformed(TurnRecords[i])
          /\ ValidFor(TOOL_TO_AGENT[TurnRecords[j].tool_name], TurnRecords[j])
          /\ TOOL_TO_AGENT[TurnRecords[i].tool_name] # TOOL_TO_AGENT[TurnRecords[j].tool_name]
          /\ response.out[TOOL_TO_AGENT[TurnRecords[i].tool_name]] = DefaultOut

\* C6 (as claimed): a turn in which a worker result was malformed leaves an
\* entry in the tracker's error list, so the errors returned are non-empty.
C6_MalformedResultRecordsError ==
    (TurnDone({"plan", "replan", "chat"}) /\
     \E i \in 1..Len(TurnRecords) : Malformed(TurnRecords[i])) =>
        /\ TurnTracker.errors # <<>>
        /\ (cur.kind = "chat" => response.summary.errors # <<>>)
        /\ (cur.kind # "chat" => response.errors # <<>>)

\* C7 (as claimed): after a full plan the itinerary stored in the session and
\* returned in the response is a non-empty list of day plans.
C7_FullPlanHasItinerary ==
    (TurnDone({"plan"}) /\ response.status = "ok") =>
        /\ Len(sessions[cur.sid].itinerary) >= 1
        /\ response.itinerary = sessions[cur.sid].itinerary

\* a step in which run_replan is called for a stored session
ReplanCalled ==
    /\ turns' = turns + 1
    /\ cur'.kind \in {"replan", "replan_noop", "replan_invalid"}

\* C15: replan no-op.  When no changed field is a key of the dependency table
\* (no changed field at all, or only unknown names), run_replan invokes no
\* worker, creates no tracker record, does not write to the session store,
\* leaves every field of the stored session unchanged and returns a response
\* built from the existing session with an empty replanned list.
C15_ReplanNoopLeavesSessionAlone ==
    [][ (ReplanCalled /\ cur'.changed \cap DOMAIN DEPENDENCY_MAP = {}) =>
            LET session == sessions[cur'.sid]
            IN  /\ cur'.kind = "replan_noop"
                /\ cur'.phase = "done"
                /\ sessions' = sessions
                /\ inflight' = inflight
                /\ nextCall' = nextCall
                /\ chat_clients' = chat_clients
                /\ mgr_sessions' = mgr_sessions
                /\ \A k \in TrackerKeys :
                      trackers'[k].tool_call_records
                          \in {trackers[k].tool_call_records, <<>>}
                /\ response'.status = "ok"
                /\ response'.session_id = cur'.sid
                /\ response'.replanned_agents = {}
                /\ \A d \in Domains :
                      response'.out[d] =
                          (IF session.out[d] = NoneOut THEN DefaultOut
                           ELSE session.out[d])
                /\ response'.itinerary = session.itinerary
                /\ response'.agents_run = session.agents_run
                /\ response'.errors = session.errors
      ]_vars

\* a no-op replan naming only an unknown field, on a session that holds a
\* weather output from its plan
C15_Witness ==
    /\ cur.kind = "replan_noop"
    /\ cur.changed = {"unknown_field"}
    /\ sessions[cur.sid].exists
    /\ sessions[cur.sid].out["weather"] \notin {NoneOut, DefaultOut}
    /\ response.out["weather"] = sessions[cur.sid].out["weather"]
    /\ response.out["hotel"] = DefaultOut
    /\ response.replanned_agents = {}

\* the id is known to no part of the system: no stored plan session, no
\* ChatSession in the manager, no SDK client in the registry
UnknownId(id) ==
    /\ ~sessions[id].exists
    /\ id \notin mgr_sessions
    /\ id \notin chat_clients

\* C16: a replan or a chat continuation that names a session id unknown to
\* the system surfaces a not-found condition to the caller: no worker can be
\* invoked, and no session, tracker or client is created or modified for the id.
C16_UnknownIdIsNotFound ==
    [][ (turns' = turns + 1 /\ cur'.named /\ UnknownId(cur'.sid)) =>
            /\ response'.status = "not_found"
            /\ cur'.phase = "done"
            /\ sessions' = sessions
            /\ mgr_sessions' = mgr_sessions
            /\ chat_clients' = chat_clients
            /\ trackers'[cur'.sid] = trackers[cur'.sid]
            /\ inflight' = inflight
      ]_vars

\* the replan half of C16 alone (run_replan raises for an id with no stored session)
ReplanUnknownIdIsNotFound ==
    [][ (turns' = turns + 1 /\ cur'.named /\ UnknownId(cur'.sid)
             /\ cur'.kind # "chat") =>
            /\ response'.status = "not_found"
            /\ cur'.phase = "done"
            /\ sessions' = sessions
            /\ mgr_sessions' = mgr_sessions
            /\ chat_clients' = chat_clients
            /\ trackers'[cur'.sid] = trackers[cur'.sid]
            /\ inflight' = inflight
      ]_vars

(***************************************************************************)
(* Properties of the itinerary builder.                                    *)
(***************************************************************************)
ItinReturned == itin.phase = "returned"
ItinAttractions ==
    IF itin.args.discovery # None THEN itin.args.discovery.attractions ELSE <<>>

\* slots are counted through the returned itinerary: morning and afternoon of
\* day 1, then of day 2, ...; slot k belongs to day (k + 1) \div 2
SlotCount == 2 * Len(itin.days)
SlotDay(k) == itin.days[(k + 1) \div 2]
SlotAttraction(k) ==
    IF k % 2 = 1 THEN SlotDay(k).morning_attraction ELSE SlotDay(k).afternoon_attraction
FilledSlots == {k \in 1..SlotCount : SlotAttraction(k) # None}
UsedBefore(k) == {SlotAttraction(j).name : j \in {i \in FilledSlots : i < k}}

\* the forecast of the slot's day is the first list entry with that exact date
SlotRainy(k) ==
    LET d == itin.args.start_date + ((k + 1) \div 2) - 1
        fs == itin.args.weather.daily_forecasts
    IN  \E i \in 1..Len(fs) :
            /\ fs[i].date = d
            /\ \A j \in 1..(i - 1) : fs[j].date # d
            /\ fs[i].max_rain_probability > 60
UnusedIndoor(k) ==
    {i \in 1..Len(ItinAttractions) :
        ~OutdoorTag[ItinAttractions[i]] /\ ItinAttractions[i].name \notin UsedBefore(k)}
Substituted(k) ==
    /\ SlotRainy(k) /\ OutdoorTag[ItinAttractions[k]] /\ UnusedIndoor(k) # {}
    /\ SlotAttraction(k) = ItinAttractions[MinOf(UnusedIndoor(k))]
KeptForLackOfIndoor(k) ==
    /\ SlotRainy(k) /\ OutdoorTag[ItinAttractions[k]] /\ UnusedIndoor(k) = {}
    /\ SlotAttraction(k) = ItinAttractions[k]

\* C8: in the itinerary returned by build_itinerary no attraction of the input
\* list (attractions of distinct names) fills more than one morning/afternoon
\* slot, over all days, for every attraction list and pattern of rainy days.
C8_EachAttractionAtMostOnce ==
    ItinReturned =>
        \A j, k \in FilledSlots : j # k => SlotAttraction(j).name # SlotAttraction(k).name

\* C9: weather-driven substitution.  In every slot that has a candidate (the
\* k-th slot takes the k-th attraction of the list): on a day whose forecast
\* has peak rain probability above 0.60, an outdoor candidate is replaced by
\* the first indoor attraction of the list not used in an earlier slot, and is
\* kept only when there is none; on a day that is not rainy or has no
\* forecast the candidate is kept.
C9_WeatherSubstitution ==
    ItinReturned =>
        \A k \in 1..SlotCount :
            k <= Len(ItinAttractions) =>
                IF SlotRainy(k) /\ OutdoorTag[ItinAttractions[k]]
                THEN IF UnusedIndoor(k) # {}
                     THEN /\ SlotAttraction(k) = ItinAttractions[MinOf(UnusedIndoor(k))]
                          /\ SlotAttraction(k) # ItinAttractions[k]
                     ELSE SlotAttraction(k) = ItinAttractions[k]
                ELSE SlotAttraction(k) = ItinAttractions[k]

\* an itinerary with a substituted slot, a rainy slot whose outdoor candidate
\* was kept for lack of an unused indoor attraction, and a candidate kept on
\* a day that is not rainy
C9_Witness ==
    /\ ItinReturned
    /\ \E k \in 1..SlotCount : k <= Len(ItinAttractions) /\ Substituted(k)
    /\ \E k \in 1..SlotCount : k <= Len(ItinAttractions) /\ KeptForLackOfIndoor(k)
    /\ \E k \in 1..SlotCount :
          /\ k <= Len(ItinAttractions) /\ ~SlotRainy(k)
          /\ SlotAttraction(k) = ItinAttractions[k]

\* C21: build_itinerary returns one DayPlan for each calendar day of the range
\* from start_date to end_date (end_date - start_date days: the range is
\* counted as the code's DateRange counts it, end date excluded), and exactly
\* one when the range is zero-length or reversed; the plans are in order,
\* their day numbers are 1, 2, ..., n and the k-th plan's date is start_date
\* plus k - 1 days.
C21_OneDayPlanPerDay ==
    ItinReturned =>
        LET span == itin.args.end_date - itin.args.start_date
            n == Len(itin.days)
        IN  /\ span >= 1 => n = span
            /\ span <= 0 => n = 1
            /\ \A k \in 1..n :
                  /\ itin.days[k].day_number = k
                  /\ itin.days[k].date = itin.args.start_date + (k - 1)

\* a range of two days, whose second plan is dated the day after the start
C21_Witness ==
    /\ ItinReturned
    /\ itin.args.end_date = itin.args.start_date + 2
    /\ Len(itin.days) = 2
    /\ itin.days[2].day_number = 2
    /\ itin.days[2].date = itin.args.start_date + 1

\* a reversed range still yields the plan of the start date
C21_ReversedRange ==
    /\ ItinReturned
    /\ itin.args.end_date < itin.args.start_date
    /\ Len(itin.days) = 1

ItinHiddenGems ==
    IF itin.args.discovery # None THEN itin.args.discovery.hidden_gems ELSE <<>>
ItinRestaurants ==
    IF itin.args.discovery # None THEN itin.args.discovery.restaurants ELSE <<>>

\* C26: a day with an odd number has no hidden gem; day 2k has the k-th gem
\* of the list when the list has k gems and none otherwise; no gem is on two
\* days.
C26_HiddenGemsOnEvenDays ==
    ItinReturned =>
        /\ \A d \in 1..Len(itin.days) :
              LET k == d \div 2
              IN  itin.days[d].hidden_gem =
                      (IF d % 2 = 0 /\ k <= Len(ItinHiddenGems)
                       THEN ItinHiddenGems[k] ELSE None)
        /\ \A d, e \in 1..Len(itin.days) :
              d # e /\ itin.days[d].hidden_gem # None =>
                  itin.days[d].hidden_gem # itin.days[e].hidden_gem

\* Four days and two gems: day 2 has the first, day 4 the second.
C26_Witness ==
    /\ ItinReturned
    /\ Len(itin.days) = 4
    /\ Len(ItinHiddenGems) = 2
    /\ itin.days[2].hidden_gem = ItinHiddenGems[1]
    /\ itin.days[4].hidden_gem = ItinHiddenGems[2]
    /\ itin.days[1].hidden_gem = None /\ itin.days[3].hidden_gem = None

\* Four days and one gem: day 4 has none.
GemsRunOut ==
    /\ ItinReturned
    /\ Len(itin.days) = 4
    /\ Len(ItinHiddenGems) = 1
    /\ itin.days[2].hidden_gem # None
    /\ itin.days[4].hidden_gem = None

\* C27: with n >= 1 restaurants every day has a dinner restaurant, and day
\* d's is the entry at index (d - 1) mod n of the list (counted from 0);
\* with no restaurant no day has one.
C27_DinnerCyclesWithWraparound ==
    ItinReturned =>
        LET n == Len(ItinRestaurants)
        IN  \A d \in 1..Len(itin.days) :
               /\ n >= 1 =>
                     /\ itin.days[d].dinner_restaurant # None
                     /\ itin.days[d].dinner_restaurant =
                            ItinRestaurants[((d - 1) % n) + 1]
               /\ n = 0 => itin.days[d].dinner_restaurant = None

\* Two restaurants over three days or more: day 3 dines where day 1 did.
C27_Witness ==
    /\ ItinReturned
    /\ Len(ItinRestaurants) = 2
    /\ Len(itin.days) >= 3
    /\ itin.days[3].dinner_restaurant = ItinRestaurants[1]
    /\ itin.days[2].dinner_restaurant = ItinRestaurants[2]
    /\ itin.days[1].dinner_restaurant = ItinRestaurants[1]

(***************************************************************************)
(* Properties of the budget engine.                                        *)
(***************************************************************************)
BudgetReturned == bud.phase = "returned"

\* C10: for every input whose style is not luxury, optimize_budget returns
\* status "over" iff estimatedTotal > effectiveBudget * 1.05, "under" iff
\* estimatedTotal < effectiveBudget * 0.80 and "balanced" otherwise; for style
\* luxury the returned status is "balanced" regardless of the totals.
C10_StatusClassification ==
    BudgetReturned =>
        LET r == bud.result
            over == GreaterThan105Pct(r.estimated_total, r.effective_budget)
            under == LessThan80Pct(r.estimated_total, r.effective_budget)
        IN  /\ r.raised = ""
            /\ IF Strip(Lower(bud.args.travel_style)) = "luxury"
               THEN r.output.status = "balanced"
               ELSE /\ (r.output.status = "over") <=> over
                    /\ (r.output.status = "under") <=> under
                    /\ (r.output.status = "balanced") <=> (~over /\ ~under)

\* days as optimize_budget takes them: the input value coerced to at least 1
CoercedDays == IF bud.args.num_days <= 0 THEN 1 ELSE bud.args.num_days

\* C11: floor invariant.  For every transport cost, hotel cost, total budget
\* and style, with days coerced to at least 1, food >= 15 * days and
\* activities >= 5 * days, hence food + activities >= 20 * days; this holds
\* of the computed costs and of the breakdown of every returned output.
C11_FloorInvariant ==
    BudgetReturned =>
        LET r == bud.result
            b == r.output.breakdown
        IN  /\ r.num_days = CoercedDays
            /\ r.food_cost >= 15000 * CoercedDays
            /\ r.activities_cost >= 5000 * CoercedDays
            /\ r.food_cost + r.activities_cost >= 20000 * CoercedDays
            /\ r.raised = "" =>
                  /\ b.food_usd >= 15000 * CoercedDays
                  /\ b.activities_usd >= 5000 * CoercedDays
                  /\ b.food_usd + b.activities_usd >= 20000 * CoercedDays

\* a returned breakdown for days <= 0 and a negative budget left after
\* transport and hotel, with both floors binding
C11_Witness ==
    /\ BudgetReturned
    /\ bud.result.raised = ""
    /\ bud.args.num_days <= 0
    /\ bud.result.effective_budget - bud.args.transport_cost - bud.args.hotel_cost < 0
    /\ bud.result.output.breakdown.food_usd = 15000
    /\ bud.result.output.breakdown.activities_usd = 5000

\* the budget equations of C12 for a style matched as `style_key` says:
\* effective budget (affordable 0.80, standard 1.00, premium 1.20, any other
\* style but luxury 1.0; the luxury ceiling is left open), discretionary,
\* food, activities, estimated total and remaining, of the computed values
\* and, rounded to cents, of every returned output
BudgetEquations(style_key) ==
    LET a == bud.args
        r == bud.result
        o == r.output
        tenth == a.total_budget \div 10
        floor_food == 15000 * CoercedDays
        floor_act == 5000 * CoercedDays
        food60 == (r.discretionary \div 10) * 6
        act40 == (r.discretionary \div 10) * 4
        left == r.effective_budget - a.transport_cost - a.hotel_cost
    IN  /\ style_key = "affordable" => r.effective_budget = tenth * 8
        /\ style_key = "standard" => r.effective_budget = a.total_budget
        /\ style_key = "premium" => r.effective_budget = tenth * 12
        /\ style_key \notin {"affordable", "standard", "premium", "luxury"}
              => r.effective_budget = a.total_budget
        /\ r.discretionary = (IF left > 0 THEN left ELSE 0)
        /\ r.food_cost = (IF food60 > floor_food THEN food60 ELSE floor_food)
        /\ r.activities_cost = (IF act40 > floor_act THEN act40 ELSE floor_act)
        /\ r.estimated_total =
              a.transport_cost + a.hotel_cost + r.food_cost + r.activities_cost
        /\ r.raised = "" =>
              /\ o.breakdown.food_usd = Round2(r.food_cost)
              /\ o.breakdown.activities_usd = Round2(r.activities_cost)
              /\ o.estimated_total_usd = Round2(r.estimated_total)
              /\ o.remaining_budget_usd = Round2(a.total_budget - r.estimated_total)

\* total_budget=2000, transport=500, hotel=600, affordable, 5 days yields
\* food 300, activities 200, estimated total 1600, status "balanced"
BudgetScenario ==
    (/\ bud.args.total_budget = 2000000 /\ bud.args.transport_cost = 500000
     /\ bud.args.hotel_cost = 600000 /\ bud.args.num_days = 5
     /\ bud.args.travel_style = "affordable")
    => /\ bud.result.raised = ""
       /\ bud.result.effective_budget = 1600000
       /\ bud.result.discretionary = 500000
       /\ bud.result.output.breakdown.food_usd = 300000
       /\ bud.result.output.breakdown.activities_usd = 200000
       /\ bud.result.output.estimated_total_usd = 1600000
       /\ bud.result.output.status = "balanced"

Abs(x) == IF x < 0 THEN -x ELSE x

\* The rounding errors between effective_budget and estimated_total.
RoundingSlack ==
    Abs(bud.err.discretionary) + Abs(bud.err.food) + Abs(bud.err.activities)
        + Abs(bud.err.total)

NeverUnderForNonNegativeBudget ==
    BudgetReturned /\ bud.result.raised = "" /\ bud.args.total_budget >= 0 =>
        bud.result.output.status # "under"

ExactTotalCoversEffectiveBudget ==
    BudgetReturned => bud.result.estimated_total >= bud.result.effective_budget

(***************************************************************************)
(* Properties of the dependency resolver.                                  *)
(***************************************************************************)
DepsReturned == deps.phase = "returned"
FieldsOf(list) == {list[i] : i \in 1..Len(list)}

\* the changed fields after which the budget output is stale: the travel
\* style, the stated budget, and every field whose change invalidates the
\* transport or the hotel output
BudgetInputs ==
    {"travel_style", "budget_usd"} \cup
    {f \in DOMAIN DEPENDENCY_MAP : DEPENDENCY_MAP[f] \cap {"transport", "hotel"} # {}}

\* C13: for a replan whose changed fields include the travel style, the stated
\* budget or any field that invalidates transport or hotel, the affected set
\* returned by the dependency resolver contains "budget".
C13_BudgetRecomputedOnItsInputs ==
    DepsReturned =>
        (FieldsOf(deps.a) \cap BudgetInputs # {} => "budget" \in deps.of_a)

TableUnion(fields) == UNION {DEPENDENCY_MAP[f] : f \in fields \cap DOMAIN DEPENDENCY_MAP}

\* C14: get_affected_agents(F) is the union of DEPENDENCY_MAP[f] over the f
\* in F that are keys of the table; hence affected(A + B) = affected(A) \cup
\* affected(B), unknown names add nothing, affected({budget_usd}) = {budget,
\* itinerary}, affected({}) = {} = affected({unknown_field}), and
\* affected({destination}) is all six steps.  The set form used by
\* run_replan agrees with the loop.
C14_UnionOfTheTable ==
    DepsReturned =>
        /\ deps.of_a = TableUnion(FieldsOf(deps.a))
        /\ deps.of_b = TableUnion(FieldsOf(deps.b))
        /\ deps.of_both = deps.of_a \cup deps.of_b
        /\ deps.of_a = GetAffectedAgents(FieldsOf(deps.a))
        /\ FieldsOf(deps.b) \subseteq {"unknown_field"} => deps.of_both = deps.of_a
        /\ deps.a = <<"budget_usd">> => deps.of_a = {"budget", "itinerary"}
        /\ deps.a = <<>> => deps.of_a = {}
        /\ deps.a = <<"unknown_field">> => deps.of_a = {}
        /\ deps.a = <<"destination">> =>
              deps.of_a = {"weather", "transport", "hotel", "discovery", "budget",
                           "itinerary"}

\* an unknown name next to budget_usd, joined with a list that adds discovery
C14_Witness ==
    /\ DepsReturned
    /\ deps.a = <<"unknown_field", "budget_usd">>
    /\ deps.b = <<"preferences">>
    /\ deps.of_a = {"budget", "itinerary"}
    /\ deps.of_both = {"budget", "itinerary", "discovery"}

(***************************************************************************)
(* Properties of the result extractor.                                     *)
(***************************************************************************)
ExtractReturned == ext.phase = "returned"

\* the first part labelled text in the list carries the text x
FirstLabelledTextIs(parts, x) ==
    \E i \in 1..Len(parts) :
        /\ IsTextPart(parts[i])
        /\ \A j \in 1..(i - 1) : ~IsTextPart(parts[j])
        /\ HasKey(parts[i], "text")
        /\ GetItem(parts[i], "text") = PyStr(x)

\* the value is a dict that holds a list under "content"
IsContentWrapper(v) ==
    /\ v.t = "dict"
    /\ HasKey(v, "content")
    /\ GetItem(v, "content").t = "list"

\* the string is JSON that decodes to a content wrapper
DecodesToWrapper(s) ==
    LET parsed == JsonLoadsValue(s)
    IN  parsed.exc = "" /\ IsContentWrapper(parsed.value)

ExtractedExactly(x) == ext.raised = "" /\ ext.value = PyStr(x)

\* every wrapper of parts next to its JSON encoding
WrapperEncodings == {<<JsonDumps(Wrapper(parts)), parts>> : parts \in PartLists}

\* C17: extraction is invariant under the transport envelope.  For every
\* non-empty text X the extractor returns exactly X from (i) a document
\* {"content": parts} whose first part labelled text has text X, (ii) the
\* JSON encoding of such a document, unwrapped one level only, (iii) a bare
\* list of parts whose first text part has text X, and (iv) the string X
\* itself when X is not JSON or is JSON without a content-part wrapper.
C17_EnvelopeInvariance ==
    ExtractReturned =>
        \A x \in Texts :
            LET r == ext.tool_response
            IN  /\ (IsContentWrapper(r)
                        /\ FirstLabelledTextIs(GetItem(r, "content").items, x))
                      => ExtractedExactly(x)
                /\ (r.t = "str"
                        /\ \E e \in WrapperEncodings :
                              /\ r.s = e[1]
                              /\ FirstLabelledTextIs(e[2], x))
                      => ExtractedExactly(x)
                /\ (r.t = "list" /\ FirstLabelledTextIs(r.items, x))
                      => ExtractedExactly(x)
                /\ (r = PyStr(x) /\ ~DecodesToWrapper(x))
                      => ExtractedExactly(x)

\* the encoding of a wrapper whose text part, after an image part, is itself
\* the encoding of a wrapper: one level is unwrapped
C17_Witness ==
    /\ ExtractReturned
    /\ ext.tool_response = PyStr(JsonDumps(Wrapper(<<ImagePart, TextPart(WrappedX)>>)))
    /\ ext.value = PyStr(WrappedX)
    /\ WrappedX # PlainX

\* C18: extraction is total.  For every raw response shape the extractor
\* returns a value or absence without raising, and it returns absence only
\* when the input itself is absent.
C18_ExtractionTotal ==
    ExtractReturned =>
        /\ ext.raised = ""
        /\ ext.value = PyNone => ext.tool_response = PyNone

\* the parts of C18 taken one by one
ExtractNeverRaises == ExtractReturned => ext.raised = ""
ExtractAbsentOnlyForAbsent ==
    (ExtractReturned /\ ext.raised = "" /\ ext.value = PyNone)
        => ext.tool_response = PyNone

(***************************************************************************)
(* Properties of the chat client manager.                                  *)
(***************************************************************************)
\* C19: the expiry sweep never races with an in-flight request.  In every
\* interleaving of the cleanup loop with chat requests, the sweep never
\* removes a chat session from the manager, nor disconnects its SDK client,
\* while a chat request for that session id is still being processed.
C19_SweepNeverTakesInFlight == mgr.phase = "on" => mgr.raced = {}

\* the sweep takes a session from under a request only when the session
\* has expired during the request
RaceNeedsSlowRequest ==
    mgr.phase = "on" => \A x \in mgr.raced : x.expired

\* the id has had no request for longer than the TTL and none is in flight:
\* its session, if the manager holds one, has expired
IdleBeyondTTL(sid) ==
    /\ mgr.phase = "on"
    /\ ~InFlight(mgr, sid)
    /\ IF mgr.sessions[sid].exists THEN IsExpired(mgr, sid)
       ELSE /\ sid \in mgr.clients
            /\ mgr.last_request[sid] >= 0
            /\ mgr.now - mgr.last_request[sid] > SESSION_TTL_MINUTES

\* neither the manager nor the client registry holds anything for the id
Reclaimed(sid) == ~mgr.sessions[sid].exists /\ sid \notin mgr.clients

\* C20: idle chat sessions are reclaimed.  While the manager is started and
\* the sweep is scheduled fairly, a chat session that receives no request
\* for longer than the TTL is eventually removed from the manager and its
\* SDK client from the client registry (unless a new request for the id
\* arrives first).
C20_IdleSessionsReclaimed ==
    \A sid \in ChatIds :
        IdleBeyondTTL(sid) ~> (Reclaimed(sid) \/ InFlight(mgr, sid))

\* the manager's half of C20: the expired ChatSession itself always goes
IdleSessionLeavesManager ==
    \A sid \in ChatIds :
        (mgr.phase = "on" /\ mgr.sessions[sid].exists /\ IsExpired(mgr, sid))
            ~> ~(mgr.sessions[sid].exists /\ IsExpired(mgr, sid))

\* an error in one sweep iteration leaves the loop asleep, ready to run again
SweepSurvivesError ==
    [][SweepError => (mgr'.sweep.pc = "sleep")]_vars

\* a request that found its session expired works on a new ChatSession
\* (a new AgentTracker) under the same id
ExpiredGetsFreshSession ==
    mgr.phase = "on" =>
        \A r \in DOMAIN mgr.reqs :
            (mgr.reqs[r].found = "expired" /\ mgr.reqs[r].gen # 0)
                => mgr.reqs[r].gen > mgr.reqs[r].old_gen

\* an SDK client left in the registry for an id whose fresh session the
\* sweep removed from a stale list, with no request in flight
ClientLeakedByStaleSweep ==
    /\ mgr.phase = "on"
    /\ \E x \in mgr.raced :
          /\ ~x.expired
          /\ x.sid \in mgr.clients
          /\ ~mgr.sessions[x.sid].exists
          /\ ~InFlight(mgr, x.sid)

(***************************************************************************)
(* Properties of the tracker and its hooks (SpecTracker).                  *)
(***************************************************************************)
EmptySummary ==
    [agents_completed |-> <<>>, total_tool_calls |-> 0, tools_called |-> <<>>,
     errors |-> <<>>]

HasResult(rec) == rec.result_json.kind # "none"

\* C22: reset() leaves the three collections empty whatever the tracker
\* held, so a summary taken right after it is the empty summary; and every
\* summary lists the completed domains in ascending order without repeats,
\* the tool names of the records in the order the calls were made, their
\* count, and the errors.
C22_ResetEmptiesAndSummaryOrdered ==
    /\ trk.phase = "on" /\ trk.last.op = "reset" =>
          /\ trk.tracker.tool_call_records = <<>>
          /\ trk.tracker.agents_completed = {}
          /\ trk.tracker.errors = <<>>
          /\ GetSummary(trk.tracker) = EmptySummary
    /\ trk.phase = "on" /\ trk.last.op = "summary" =>
          LET s == trk.summary
              recs == trk.tracker.tool_call_records
              done == s.agents_completed
          IN  /\ {done[i] : i \in 1..Len(done)} = trk.tracker.agents_completed
              /\ \A i, j \in 1..Len(done) : i < j => StrLess(done[i], done[j])
              /\ s.total_tool_calls = Len(recs)
              /\ Len(s.tools_called) = Len(recs)
              /\ \A i \in 1..Len(recs) : s.tools_called[i] = recs[i].tool_name
              /\ \A i, j \in 1..Len(recs) :
                    i < j => recs[i].tool_input < recs[j].tool_input
              /\ s.errors = trk.tracker.errors

\* A reset of a tracker that held records (one with a result), completed
\* domains and an error.
C22_Witness ==
    /\ trk.phase = "on" /\ trk.last.op = "reset"
    /\ \E i \in 1..Len(trk.last.before.tool_call_records) :
          HasResult(trk.last.before.tool_call_records[i])
    /\ Cardinality(trk.last.before.agents_completed) >= 2
    /\ trk.last.before.errors # <<>>

\* A summary that lists two completed domains and three calls.
SummaryOfBusyTracker ==
    /\ trk.phase = "on" /\ trk.last.op = "summary"
    /\ Len(trk.summary.agents_completed) >= 2
    /\ trk.summary.total_tool_calls = MaxTrackerCalls

\* The records of tool T that wait for a result.
Waiting(records, T) ==
    {i \in 1..Len(records) : records[i].tool_name = T /\ ~HasResult(records[i])}

PostOfMappedTool ==
    trk.phase = "on" /\ trk.last.op = "post" /\ AgentDomain(trk.last.tool) # ""

\* C23: a post event of a mapped tool T with a non-empty result changes
\* exactly one record, the latest record of T that had no result, by giving
\* it that result; every other record (other tools, records of T that hold
\* a result, older waiting records of T) is as it was.  No post event
\* replaces or removes a result that a record already holds.
C23_PostAttachesToLatestWaiting ==
    PostOfMappedTool =>
        LET before == trk.last.before.tool_call_records
            after == trk.tracker.tool_call_records
            waiting == Waiting(before, trk.last.tool)
        IN  /\ Len(after) = Len(before)
            /\ \A j \in 1..Len(before) : HasResult(before[j]) => after[j] = before[j]
            /\ Truthy(trk.last.text) /\ waiting # {} =>
                  \E i \in waiting :
                      /\ \A j \in waiting : j <= i
                      /\ after[i] = [before[i] EXCEPT !.result_json = trk.last.text]
                      /\ \A j \in 1..Len(before) : j # i => after[j] = before[j]

\* A result arrives while two calls of the tool wait: the later record takes
\* it, the earlier one keeps waiting.
C23_Witness ==
    /\ PostOfMappedTool
    /\ Truthy(trk.last.text)
    /\ LET before == trk.last.before.tool_call_records
           after == trk.tracker.tool_call_records
       IN  \E i, j \in Waiting(before, trk.last.tool) :
              i < j /\ HasResult(after[j]) /\ ~HasResult(after[i])

\* C24: a post event of a mapped tool that finds no record of that tool
\* waiting for a result completes and leaves the records as they were: none
\* created, changed or removed; no error is recorded either.
C24_UnmatchedPostLeavesRecords ==
    PostOfMappedTool /\ Waiting(trk.last.before.tool_call_records, trk.last.tool) = {} =>
        /\ trk.tracker.tool_call_records = trk.last.before.tool_call_records
        /\ trk.tracker.errors = trk.last.before.errors

\* An unmatched post event with a non-empty result, on a tracker that holds
\* records: one of another tool still waiting, or one of the same tool
\* already matched.
C24_Witness ==
    /\ PostOfMappedTool
    /\ Truthy(trk.last.text)
    /\ Waiting(trk.last.before.tool_call_records, trk.last.tool) = {}
    /\ trk.last.before.tool_call_records # <<>>

\* An unmatched post event still marks the tool's domain completed.
UnmatchedPostMarksDomain ==
    PostOfMappedTool =>
        AgentDomain(trk.last.tool) \in trk.tracker.agents_completed

NumWithResult(records) == Cardinality({i \in 1..Len(records) : HasResult(records[i])})

\* C28: as long as every post event belonged to a running call and carried
\* a non-empty result, the records holding a result are as many as the post
\* events of mapped tools, and the records of a mapped tool still waiting
\* are as many as the running calls of that tool; so once no call is
\* running every record of a mapped tool holds a result.
C28_NoResultLostUnderParallelCalls ==
    trk.phase = "on" /\ trk.orderly =>
        LET recs == trk.tracker.tool_call_records
        IN  /\ NumWithResult(recs) = trk.posts
            /\ \A t \in CalledTools :
                  AgentDomain(t) # "" =>
                      Cardinality(Waiting(recs, t)) =
                          Cardinality({c \in trk.running : c.tool = t})
            /\ trk.running = {} =>
                  \A i \in 1..Len(recs) :
                      AgentDomain(recs[i].tool_name) # "" => HasResult(recs[i])

\* Two calls of one tool ran in parallel and the first to be made finished
\* first: its result sits in the record of the second call, and both
\* records hold a result.
C28_Witness ==
    /\ trk.phase = "on" /\ trk.orderly /\ trk.running = {}
    /\ \E i, j \in 1..Len(trk.tracker.tool_call_records) :
          LET recs == trk.tracker.tool_call_records
          IN  /\ i < j
              /\ recs[i].tool_name = recs[j].tool_name
              /\ recs[j].result_json.src = recs[i].tool_input
              /\ recs[i].result_json.src = recs[j].tool_input

(***************************************************************************)
(* Properties of serp_fetch (SpecFetch).                                   *)
(***************************************************************************)
Retryable == {"HTTPStatusError", "RequestError", "TimeoutException"}

FetchReturned == fetch.phase = "returned"

\* C25: serp_fetch makes at most three requests and never raises.  It
\* returns the document of the first request that succeeds and makes no
\* request after it; every request before was a transport, HTTP status or
\* timeout failure.  It returns the empty document after the third such
\* failure, at once after any other exception, and without any request
\* when the API key is missing.
C25_BoundedRetryThenDegrade ==
    fetch.phase # "off" =>
        LET made == fetch.outcomes
            n == Len(made)
        IN  /\ n <= 3
            /\ fetch.raised = ""
            /\ \A i \in 1..(n - 1) : made[i] \in Retryable
            /\ fetch.sleeps <= max_retries
            /\ FetchReturned =>
                  /\ fetch.SERPAPI_KEY = "" => n = 0 /\ fetch.result = EmptyDoc
                  /\ fetch.SERPAPI_KEY # "" => n >= 1
                  /\ n >= 1 /\ made[n] = "ok" =>
                        /\ fetch.result.kind = "doc"
                        /\ fetch.result.attempt = n
                        /\ fetch.result.engine = fetch.params.engine
                  /\ n >= 1 /\ made[n] # "ok" => fetch.result = EmptyDoc
                  /\ n >= 1 /\ made[n] \in Retryable => n = 3
                  /\ fetch.sleeps = (IF n = 0 THEN 0 ELSE n - 1)

\* Three failed requests in a row, then the empty document.
C25_Witness ==
    /\ FetchReturned
    /\ Len(fetch.outcomes) = 3
    /\ \A i \in 1..3 : fetch.outcomes[i] \in Retryable
    /\ fetch.result = EmptyDoc

\* A request that succeeds on the second attempt.
FetchSucceedsOnRetry ==
    /\ FetchReturned
    /\ fetch.outcomes = <<"TimeoutException", "ok">>
    /\ fetch.result.kind = "doc"

\* A parser error on the first attempt ends the call.
FetchGivesUpOnOtherError ==
    /\ FetchReturned
    /\ fetch.outcomes = <<"JSONDecodeError">>

\* The key is injected and "output" defaults to json for every request made.
FetchParamsPrepared ==
    fetch.phase \in {"requesting", "sleeping"} =>
        /\ fetch.params.api_key = fetch.SERPAPI_KEY
        /\ fetch.params.output # ""

(***************************************************************************)
(* Properties of concurrent chat turns (SpecRace).                         *)
(***************************************************************************)
ClientsOf(sid) == {c \in race.connected : race.reqs[c].sid = sid}

OneRegisteredClientPerId ==
    \A sid \in ChatIds :
        /\ Cardinality(ClientsOf(sid)) <= 1
        /\ \A c \in ClientsOf(sid) : race.registry[sid] = c

\* C30: whatever the interleaving of chat requests with one session id, at
\* most one client is connected for the id, every connected client is the
\* one the registry holds for its id, and no reset clears the tracker
\* records of a turn that is still in flight.
C30_ConcurrentTurnsKeepClientAndRecords ==
    race.phase = "on" => OneRegisteredClientPerId /\ race.wiped = {}

\* Two clients are connected for one id and the registry holds only one.
TwoClientsForOneId ==
    /\ race.phase = "on"
    /\ \E sid \in ChatIds : \E c \in ClientsOf(sid) :
          /\ Cardinality(ClientsOf(sid)) = 2
          /\ race.registry[sid] # c

\* A request in flight lost its records to the reset of a later request and
\* returned a summary without its own call.
TurnLostItsRecords ==
    /\ race.phase = "on"
    /\ \E w \in race.wiped :
          /\ race.reqs[w.victim].pc = "done"
          /\ race.reqs[w.victim].calls = 1
          /\ race.reqs[w.victim].seen = 0

\* Requests that never overlap keep one registered client per id and lose
\* no record.
RequestsInTurnAreSafe ==
    race.phase = "on" /\ ~race.overlap =>
        OneRegisteredClientPerId /\ race.wiped = {}

\* Requests for different ids do not disturb each other: a reset clears
\* only records of requests with the same id.
WipedOnlyBySameId ==
    race.phase = "on" =>
        \A w \in race.wiped : race.reqs[w.victim].sid = race.reqs[w.by].sid

====
